---------------------------- MODULE Spec2Model ----------------------------
(***************************************************************************)
(* A model of QBA (Quantum Based Allocation),                              *)
(* src/hotspot/share/runtime/qba.cpp: the Registry bitmap, Partition,      *)
(* QuantumAllocator, SlabAllocator, AllocatorRoster and Director.          *)
(*                                                                         *)
(* The geometry is scaled down so that the state space is finite and       *)
(* small: registry words have 2^BITS_PER_WORD_ORDER bits, a partition      *)
(* holds 2^PARTITION_QUANTUM_ORDER quanta of its tier's smallest size and  *)
(* a tier covers MAX_QUANTUM_ALLOCATOR_ORDERS orders.  Every derived       *)
(* constant is computed from these exactly as the source computes it.      *)
(* Sizes and addresses are byte counts, as in the source.                  *)
(***************************************************************************)
EXTENDS Integers, Sequences, FiniteSets, TLC

(***************************************************************************)
(* Bounds of the model.                                                    *)
(***************************************************************************)
\* order of the number of bits of a registry word (6 in the source)
BITS_PER_WORD_ORDER == 1
\* order of the number of quanta of a partition (14 in the source)
PARTITION_QUANTUM_ORDER == 2
\* number of size orders of one quantum allocator (8 in the source)
MAX_QUANTUM_ALLOCATOR_ORDERS == 2
\* number of size orders served by the slab allocator (21 in the source)
SLAB_ORDERS == 2
\* number of roster entries above MAX_ALLOCATION_ORDER (16 in the source)
NULL_ORDERS == 2
\* creation parameters: partition counts of the three tiers, slab slots
SmallPartitionCount == 1
MediumPartitionCount == 1
LargePartitionCount == 1
MaxSlabCount == 2
\* creation parameter: bytes of side data of a block (0 to 8 in the source)
SideDataSize == 1
\* number of SLAB_ALIGNMENT sized units of address space the OS can hand out
OsUnits == 4
\* largest number of allocations a caller holds at one time
MaxLive == 2

\* the turns of a loop of a call that are followed
MaxTurns == 3
\* order of the page size (12 in the source)
PAGE_SIZE_ORDER == 4
\* the size taken for each of sizeof(Director), sizeof(QuantumAllocator),
\* sizeof(Partition), sizeof(SlabAllocator) and sizeof(Slab)
SizeofObject == 8
\* the size up to which System::clear stores zeroes itself (32 * K in the
\* source)
ClearStoreLimit == 8

(***************************************************************************)
(* Global constants (qba.cpp 384-548).                                     *)
(***************************************************************************)
NOT_FOUND == -1
ZERO == 0
nullptr == 0
BITS_PER_WORD == 2 ^ BITS_PER_WORD_ORDER
ALL_ONES == 2 ^ BITS_PER_WORD - 1
BITS_MASK == BITS_PER_WORD - 1
BYTES_PER_WORD == 8
PAGE_SIZE == 2 ^ PAGE_SIZE_ORDER
MAX_PARTITION_QUANTUM == 2 ^ PARTITION_QUANTUM_ORDER
MAX_QUANTUM_ALLOCATORS == 3
MAX_REGISTRY_BIT_COUNT == MAX_PARTITION_QUANTUM
MAX_REGISTRY_WORD_COUNT == MAX_REGISTRY_BIT_COUNT \div BITS_PER_WORD
SMALLEST_SIZE_ORDER == 3
LARGEST_SIZE_ORDER ==
    SMALLEST_SIZE_ORDER + MAX_QUANTUM_ALLOCATORS * MAX_QUANTUM_ALLOCATOR_ORDERS - 1
MAX_ALLOCATION_ORDER == LARGEST_SIZE_ORDER + 1 + SLAB_ORDERS
MAX_ORDER == MAX_ALLOCATION_ORDER + NULL_ORDERS
\* length of the arrays filled by stats (64, the number of orders, in the
\* source)
QB_STATS_SIZE == MAX_ORDER
MAX_ALLOCATION_SIZE == 2 ^ MAX_ALLOCATION_ORDER
\* the slab rounding unit M ("megabyte"): below the largest quantum size
M == 2 ^ (LARGEST_SIZE_ORDER - 1)
\* width of a size or an address (uint64_t in the source)
SIZE_BITS == MAX_ORDER
SIZE_MOD == 2 ^ SIZE_BITS

NullAllocatorID == 0
PartitionID == 1
QuantumAllocatorID == 2
SlabAllocatorID == 3

(***************************************************************************)
(* Bit twiddling utility functions (qba.cpp 568-803).  A word is a natural *)
(* number below 2^width.                                                   *)
(***************************************************************************)
\* the element of a one element set: only({ e(x) : x \in {v} }) is e(v), with v
\* evaluated once
only(S) == CHOOSE x \in S : TRUE

RECURSIVE bitOr(_, _)
bitOr(a, b) ==
    IF a = 0 THEN b
    ELSE IF b = 0 THEN a
    ELSE (IF a % 2 = 1 \/ b % 2 = 1 THEN 1 ELSE 0)
         + 2 * bitOr(a \div 2, b \div 2)

RECURSIVE bitAnd(_, _)
bitAnd(a, b) ==
    IF a = 0 \/ b = 0 THEN 0
    ELSE (IF a % 2 = 1 /\ b % 2 = 1 THEN 1 ELSE 0)
         + 2 * bitAnd(a \div 2, b \div 2)

\* ~value on a word of the registry
bitNot(value) == ALL_ONES - value

\* floor(log2(value)) for value > 0
RECURSIVE log2(_)
log2(value) == IF value <= 1 THEN 0 ELSE 1 + log2(value \div 2)

\* clz on a registry word
clz(value) == IF value = 0 THEN BITS_PER_WORD ELSE BITS_PER_WORD - 1 - log2(value)

\* clz on a size (the full integer width)
clzSize(value) == IF value = 0 THEN SIZE_BITS ELSE SIZE_BITS - 1 - log2(value)

RECURSIVE ctzRec(_)
ctzRec(value) == IF value % 2 = 1 THEN 0 ELSE 1 + ctzRec(value \div 2)

ctz(value) == IF value = 0 THEN BITS_PER_WORD ELSE ctzRec(value)

RECURSIVE popcount(_)
popcount(value) == IF value = 0 THEN 0 ELSE (value % 2) + popcount(value \div 2)

twoToOrder(order) == 2 ^ order

isPowerOf2(value) == value = 0 \/ 2 ^ log2(value) = value

\* roundUp(value, powerOf2): (value + mask) & ~mask, in SIZE_BITS bits
roundUp(value, powerOf2) ==
    LET sum == (value + powerOf2 - 1) % SIZE_MOD
    IN  sum - (sum % powerOf2)

\* value ? 1UL << (BITS - clz(value - 1)) : ZERO
roundUpPowerOf2(value) ==
    IF value = 0 THEN ZERO ELSE (2 ^ (SIZE_BITS - clzSize(value - 1))) % SIZE_MOD

\* roundUpPowerOf2 of any value of the width.  Above half the range the shift
\* count is the width itself, which is undefined: the count is reduced modulo
\* the width, or every bit is shifted out (ub).
roundUpPowerOf2Any(value, ub) ==
    IF value = 0 THEN ZERO
    ELSE IF SIZE_BITS - clzSize(value - 1) < SIZE_BITS
    THEN 2 ^ (SIZE_BITS - clzSize(value - 1))
    ELSE IF ub = "mod" THEN 1 ELSE 0

\* 8 < size ? BITS - clz(size - 1) : 3
sizeToOrder(size) == IF 8 < size THEN SIZE_BITS - clzSize(size - 1) ELSE 3

orderToSize(order) == 2 ^ order

orderMul(value, order) == value * 2 ^ order

orderDiv(value, order) == value \div 2 ^ order

(***************************************************************************)
(* Registry: an atomic bitmap (qba.cpp 1276-2065).  bits[w] is the word    *)
(* with index w, lowestIndex the cached lowest word with free bits.        *)
(***************************************************************************)
WordIndexes == 0 .. (MAX_REGISTRY_WORD_COUNT - 1)

wordsNeeded(count) == orderDiv(count + BITS_PER_WORD - 1, BITS_PER_WORD_ORDER)

\* Registry::Registry(int maximumIndex)
Registry(maximumIndex) ==
    [ maximumIndex     |-> maximumIndex,
      maximumWordIndex |-> wordsNeeded(maximumIndex),
      lowestIndex      |-> 0,
      bits             |-> [w \in WordIndexes |-> ZERO] ]

getWordIndex(index) == index \div BITS_PER_WORD
getBitIndex(index) == index % BITS_PER_WORD
getIndex(wordIndex, bitIndex) == wordIndex * BITS_PER_WORD + bitIndex

getBits(r, wordIndex) == r.bits[wordIndex]

isValidIndex(r, index) == 0 <= index /\ index < r.maximumIndex

\* Registry::isSet
isSet(r, index) ==
    bitAnd(getBits(r, getWordIndex(index)), twoToOrder(getBitIndex(index))) # 0

\* Registry::setMask: fetch_or of the word
setMask(r, wordIndex, mask) ==
    IF mask = 0 THEN r
    ELSE [r EXCEPT !.bits[wordIndex] = bitOr(@, mask)]

\* Registry::clearMask: fetch_and of the word with ~mask
clearMask(r, wordIndex, mask) ==
    IF mask = 0 THEN r
    ELSE [r EXCEPT !.bits[wordIndex] = bitAnd(@, bitNot(mask))]

\* Registry::set
set(r, index) == setMask(r, getWordIndex(index), twoToOrder(getBitIndex(index)))

\* Registry::clear
clear(r, index) == clearMask(r, getWordIndex(index), twoToOrder(getBitIndex(index)))

\* Registry::incrementLowestFreeWordIndex run alone: the compare-exchange
\* succeeds exactly when lowestIndex still equals wordIndex, otherwise the
\* current value is returned.
incrementLowestFreeWordIndex(r, wordIndex) ==
    IF r.lowestIndex = wordIndex
    THEN [reg |-> [r EXCEPT !.lowestIndex = wordIndex + 1], ret |-> wordIndex + 1]
    ELSE [reg |-> r, ret |-> r.lowestIndex]

\* Registry::findFree run alone, from the word wordIndex on
RECURSIVE findFreeFrom(_, _)
findFreeFrom(r, wordIndex) ==
    IF wordIndex = r.maximumWordIndex
    THEN [reg |-> r, ret |-> NOT_FOUND]
    ELSE LET value == getBits(r, wordIndex) IN
         IF value = ALL_ONES
         THEN LET inc == incrementLowestFreeWordIndex(r, wordIndex)
              IN  findFreeFrom(inc.reg, inc.ret)
         ELSE LET bitIndex == ctz(bitNot(value))
                  index == getIndex(wordIndex, bitIndex)
              IN  IF r.maximumIndex <= index
                  THEN [reg |-> r, ret |-> NOT_FOUND]
                  ELSE [reg |-> [r EXCEPT !.bits[wordIndex] =
                                     bitOr(value, twoToOrder(bitIndex))],
                        ret |-> index]

findFree(r) == findFreeFrom(r, r.lowestIndex)

\* Registry::updateLowestFreeWordIndex
updateLowestFreeWordIndex(r, wordIndex) ==
    IF r.lowestIndex <= wordIndex THEN r ELSE [r EXCEPT !.lowestIndex = wordIndex]

\* Registry::updateLowestIndex
updateLowestIndex(r, index) == updateLowestFreeWordIndex(r, getWordIndex(index))

\* Registry::free
free(r, index) == updateLowestIndex(clear(r, index), index)

\* Registry::isEmpty
isEmptyRegistry(r) ==
    /\ r.lowestIndex = 0
    /\ \A i \in 0 .. (r.maximumWordIndex - 1) : getBits(r, i) = ZERO

\* Registry::count
RECURSIVE countFrom(_, _)
countFrom(r, i) ==
    IF i >= r.maximumWordIndex THEN 0
    ELSE popcount(getBits(r, i)) + countFrom(r, i + 1)

countBits(r) == countFrom(r, 0)

(***************************************************************************)
(* Shifts whose count is negative or not below the word width are          *)
(* undefined in C++.  A build either reduces the count modulo the width    *)
(* (what the shift instructions of x86-64 and AArch64 do) or shifts every  *)
(* bit out; ub names the outcome.                                          *)
(***************************************************************************)
UBOutcomes == {"mod", "zero"}

\* value << n on a registry word
shl(value, n, ub) ==
    IF 0 <= n /\ n < BITS_PER_WORD
    THEN (value * 2 ^ n) % (ALL_ONES + 1)
    ELSE IF ub = "mod"
         THEN (value * 2 ^ (n % BITS_PER_WORD)) % (ALL_ONES + 1)
         ELSE 0

\* loMask(n) == MASK(1UL << n)
loMask(n, ub) == (shl(1, n, ub) + ALL_ONES) % (ALL_ONES + 1)

\* hiMask(n) == ~loMask(BITS_PER_WORD - n)
hiMask(n, ub) == bitNot(loMask(BITS_PER_WORD - n, ub))

\* lowestZeroBit(value) == ~value & -~value
lowestZeroBit(value) ==
    IF value = ALL_ONES THEN 0 ELSE twoToOrder(ctz(bitNot(value)))

\* lowestZeroBitsPosition(value, n)
RECURSIVE lowestZeroBitsPosition(_, _, _)
lowestZeroBitsPosition(value, n, ub) ==
    IF value = ALL_ONES THEN NOT_FOUND
    ELSE LET lowestBit == lowestZeroBit(value)
             rangeMask == (shl(lowestBit, n, ub) - lowestBit) % (ALL_ONES + 1)
         IN  IF bitAnd(value, rangeMask) = 0
             THEN BITS_PER_WORD - 1 - clz(lowestBit)
             ELSE lowestZeroBitsPosition(
                      bitOr(value, (value - lowestBit) % (ALL_ONES + 1)), n, ub)

\* the word read by getBits; a word index at or beyond maximumWordIndex is
\* only read by findFreeRange, which then returns NOT_FOUND whatever the
\* value is (its index test fails for every value), so ZERO stands for it
getBitsAny(r, wordIndex) ==
    IF wordIndex \in WordIndexes THEN r.bits[wordIndex] ELSE ZERO

\* Registry::conditionallySetMask run alone: the compare-exchange of the
\* freshly read word succeeds
conditionallySetMask(r, wordIndex, mask) ==
    IF mask # 0 /\ wordIndex \in WordIndexes
    THEN [r EXCEPT !.bits[wordIndex] = bitOr(@, mask)]
    ELSE r

\* Registry::conditionallySetMaskRange run alone: first word, middle words,
\* last word, every compare-exchange succeeding
RECURSIVE setMiddleWords(_, _, _)
setMiddleWords(r, wordIndex, cnt) ==
    IF cnt <= 0 THEN r
    ELSE setMiddleWords(conditionallySetMask(r, wordIndex, ALL_ONES),
                        wordIndex + 1, cnt - 1)

conditionallySetMaskRange(r, firstWordIndex, cnt, firstMask, lastMask) ==
    conditionallySetMask(
        setMiddleWords(conditionallySetMask(r, firstWordIndex, firstMask),
                       firstWordIndex + 1, cnt),
        firstWordIndex + cnt + 1, lastMask)

\* Registry::findFreeRange run alone.  Every compare-exchange succeeds, so
\* the scan returns at the first word it looks at.
findFreeRange(r, cnt, ub) ==
    IF cnt = 0 THEN [reg |-> r, ret |-> NOT_FOUND]
    ELSE IF cnt = 1 THEN findFree(r)
    ELSE LET wordIndex == r.lowestIndex
             value == getBitsAny(r, wordIndex)
         IN
         IF ~(wordIndex < r.maximumIndex) THEN [reg |-> r, ret |-> NOT_FOUND]
         ELSE IF cnt <= BITS_PER_WORD
         THEN LET bitIndex == lowestZeroBitsPosition(value, cnt, ub)
                  index == getIndex(wordIndex, bitIndex)
              IN  IF r.maximumIndex - cnt <= index
                  THEN [reg |-> r, ret |-> NOT_FOUND]
                  ELSE IF bitIndex + cnt <= BITS_PER_WORD
                  THEN [reg |-> conditionallySetMask(r, wordIndex,
                                    shl(loMask(cnt, ub), bitIndex, ub)),
                        ret |-> index]
                  ELSE [reg |-> conditionallySetMaskRange(r, wordIndex, 0,
                                    shl(loMask(cnt, ub), bitIndex, ub),
                                    loMask(cnt - bitIndex, ub)),
                        ret |-> index]
         ELSE LET leading == clz(value)
                  index == getIndex(wordIndex, BITS_PER_WORD - leading)
                  remaining == cnt - leading
                  remainingWords == getWordIndex(remaining)
                  remainingBits == getBitIndex(remaining)
                  leadingMask == hiMask(leading, ub)
                  trailingMask == loMask(remainingBits, ub)
              IN  IF r.maximumIndex - cnt <= index
                  THEN [reg |-> r, ret |-> NOT_FOUND]
                  ELSE [reg |-> conditionallySetMaskRange(r, wordIndex,
                                    remainingWords, leadingMask, trailingMask),
                        ret |-> index]

\* Registry::clearMaskRange
RECURSIVE clearMiddleWords(_, _, _)
clearMiddleWords(r, wordIndex, cnt) ==
    IF cnt <= 0 THEN r
    ELSE clearMiddleWords(
             IF wordIndex \in WordIndexes THEN clearMask(r, wordIndex, ALL_ONES) ELSE r,
             wordIndex + 1, cnt - 1)

clearMaskRange(r, firstWordIndex, cnt, firstMask, lastMask) ==
    LET r1 == clearMask(r, firstWordIndex, firstMask)
        r2 == clearMiddleWords(r1, firstWordIndex + 1, cnt)
    IN  IF lastMask # 0 /\ (firstWordIndex + cnt + 1) \in WordIndexes
        THEN clearMask(r2, firstWordIndex + cnt + 1, lastMask)
        ELSE r2

\* Registry::freeRange
freeRange(r, index, cnt, ub) ==
    LET wordIndex == getWordIndex(index)
        bitIndex == getBitIndex(index)
        cleared ==
            IF bitIndex + cnt <= BITS_PER_WORD
            THEN clearMask(r, wordIndex, shl(loMask(cnt, ub), bitIndex, ub))
            ELSE IF cnt <= BITS_PER_WORD
            THEN clearMaskRange(r, wordIndex, 0,
                                shl(loMask(cnt, ub), bitIndex, ub),
                                loMask(cnt - bitIndex, ub))
            ELSE LET leading == BITS_PER_WORD - bitIndex
                     remaining == cnt - leading
                 IN  clearMaskRange(r, wordIndex, getWordIndex(remaining),
                                    hiMask(leading, ub),
                                    loMask(getBitIndex(remaining), ub))
    IN  updateLowestFreeWordIndex(cleared, wordIndex)

\* RegistryIsSetIterator::nextSet started at bit index from: the index of
\* the next set bit, or NOT_FOUND
RECURSIVE nextSetFrom(_, _, _)
nextSetFrom(r, wordIndex, bitIndex) ==
    IF ~(wordIndex < r.maximumWordIndex) THEN NOT_FOUND
    ELSE LET value == getBits(r, wordIndex)
             masked == value - (value % twoToOrder(bitIndex))
         IN  IF masked # 0
             THEN LET index == getIndex(wordIndex, ctz(masked))
                  IN  IF r.maximumIndex <= index THEN NOT_FOUND ELSE index
             ELSE nextSetFrom(r, wordIndex + 1, 0)

nextSet(r, from) == nextSetFrom(r, getWordIndex(from), getBitIndex(from))


(***************************************************************************)
(* The allocator state threaded through the operators below is a record d  *)
(* with the fields roster, quantumAllocators, slabAllocator (the objects   *)
(* built by createDirector), mapped (the address space units the OS has    *)
(* handed to the slab allocator), wrote (the byte ranges <<address,        *)
(* size>> stored to by System::commit, System::clear and System::copy in   *)
(* the current operation) and nonzero (the addresses of the words of       *)
(* memory that hold a value other than zero).                              *)
(***************************************************************************)
Tiers == 0 .. (MAX_QUANTUM_ALLOCATORS - 1)
OrderIndexes == 0 .. (MAX_QUANTUM_ALLOCATOR_ORDERS - 1)

\* partitionCounts[] handed to createDirector
partitionCounts(t) ==
    IF t = 0 THEN SmallPartitionCount
    ELSE IF t = 1 THEN MediumPartitionCount
    ELSE LargePartitionCount

\* createDirector: smallest size order, partition size and region size of
\* each quantum allocator
tierSmallestSizeOrder(t) == SMALLEST_SIZE_ORDER + t * MAX_QUANTUM_ALLOCATOR_ORDERS
tierPartitionSize(t) == orderMul(MAX_PARTITION_QUANTUM, tierSmallestSizeOrder(t))
tierPartitionSizeOrder(t) == sizeToOrder(tierPartitionSize(t))
sizes(t) == orderMul(partitionCounts(t), tierPartitionSizeOrder(t))

\* the arena's base address: aligned to the largest partition size
ArenaBase == tierPartitionSize(MAX_QUANTUM_ALLOCATORS - 1) * 2

\* createDirector: the regions are taken from the arena largest tier first
RECURSIVE bases(_)
bases(t) ==
    IF t = MAX_QUANTUM_ALLOCATORS - 1 THEN ArenaBase
    ELSE bases(t + 1) + sizes(t + 1)

\* createDirector: the internal structures follow the regions in the arena.
\* Arena::allocate hands out consecutive ranges rounded up to BYTES_PER_WORD;
\* of the structures only the side data is given a place here, so the
\* ranges of side data follow one another: one for each quantum allocator,
\* then the one of the slab allocator (index MAX_QUANTUM_ALLOCATORS).
RECURSIVE sideDatasOf(_, _)
sideDatasOf(sideDataSize, i) ==
    IF i = 0 THEN bases(0) + sizes(0)
    ELSE sideDatasOf(sideDataSize, i - 1)
         + roundUp(partitionCounts(i - 1) * sideDataSize * MAX_PARTITION_QUANTUM,
                   BYTES_PER_WORD)

sideDatas(i) == sideDatasOf(SideDataSize, i)

\* references to allocators, as stored in the roster
NullAllocator == [id |-> NullAllocatorID, t |-> 0, p |-> 0]
QuantumAllocatorRef(t) == [id |-> QuantumAllocatorID, t |-> t, p |-> 0]
PartitionRef(t, partitionIndex) == [id |-> PartitionID, t |-> t, p |-> partitionIndex]
SlabAllocatorRef == [id |-> SlabAllocatorID, t |-> 0, p |-> 0]

\* System::commit, System::clear, System::copy (destination): the bytes
\* stored to
\* the addresses of the words of the bytes [address, address + size)
wordsOf(address, size) ==
    { x \in address .. (address + size - 1) : x % BYTES_PER_WORD = 0 }

\* size bytes from address on become zero
zeroed(d, address, size, how) ==
    IF size = 0 THEN d
    ELSE [d EXCEPT !.wrote = @ \cup {<<address, size, how>>},
                   !.nonzero = @ \ wordsOf(address, size)]

\* mmap(address, size, ..., MAP_PRIVATE | MAP_FIXED | MAP_ANONYMOUS, -1, 0),
\* result ignored: the pages that meet the range are replaced by zero pages;
\* an address that is not a multiple of the page size is refused and nothing
\* changes
remapped(d, address, size, how) ==
    IF address % PAGE_SIZE # 0 THEN d
    ELSE zeroed(d, address, roundUp(size, PAGE_SIZE), how)

System_commit(d, address, size) == remapped(d, address, size, "commit")

\* System::clear with sharing false
System_clear(d, address, size) ==
    IF size <= ClearStoreLimit
    THEN zeroed(d, address, size, "clear")
    ELSE remapped(d, address, size, "clear")

System_copy(d, src, dst, size) ==
    [d EXCEPT !.wrote = @ \cup {<<dst, size, "copy">>},
              !.nonzero = (@ \ wordsOf(dst, size))
                          \cup { dst + (x - src) : x \in @ \cap wordsOf(src, size) }]

\* Space::in
in(space, address) == space.base <= address /\ address < space.base + space.size

\* Address::getIndex(base, order)
addressGetIndex(address, base, order) == orderDiv(address - base, order)

\* Partition::Partition
Partition(base, partitionSize, quantumSize, sideDataSize, sidedata) ==
    [ base             |-> base,
      size             |-> partitionSize,
      quantumSizeOrder |-> sizeToOrder(quantumSize),
      sideDataSize     |-> sideDataSize,
      sidedata         |-> sidedata,
      registry         |-> Registry(orderDiv(partitionSize, sizeToOrder(quantumSize))) ]

\* the zero filled memory of a Partition slot never constructed
ZeroPartition ==
    [ base |-> 0, size |-> 0, quantumSizeOrder |-> 0, sideDataSize |-> 0,
      sidedata |-> nullptr, registry |-> Registry(0) ]

\* QuantumAllocator::QuantumAllocator
QuantumAllocator(smallestSizeOrder, largestSizeOrder, partitionSizeOrder, partitionCount, base, sideDataSize, sideData) ==
    [ base               |-> base,
      sideDataSize       |-> sideDataSize,
      sideData           |-> sideData,
      size               |-> orderToSize(partitionSizeOrder) * partitionCount,
      smallestSizeOrder  |-> smallestSizeOrder,
      largestSizeOrder   |-> largestSizeOrder,
      partitionSizeOrder |-> partitionSizeOrder,
      partitionCount     |-> partitionCount,
      partitionSize      |-> orderToSize(partitionSizeOrder),
      partitions         |-> [i \in 0 .. (partitionCount - 1) |-> ZeroPartition],
      partitionRegistry  |-> Registry(partitionCount),
      orderRegistry      |-> [i \in OrderIndexes |-> Registry(partitionCount)] ]

\* Partition::isEmpty
Partition_isEmpty(partition) == isEmptyRegistry(partition.registry)

\* Partition::quantumSize
quantumSize(partition) == orderToSize(partition.quantumSizeOrder)

\* Partition::quantumIndex
quantumIndex(partition, address) ==
    addressGetIndex(address, partition.base, partition.quantumSizeOrder)

\* Partition::allocate on partition partitionIndex of tier t
Partition_allocate(d, t, partitionIndex) ==
    only({ [d   |-> [d EXCEPT !.quantumAllocators[t].partitions[partitionIndex].registry
                                  = found.reg],
            ret |-> IF found.ret = NOT_FOUND THEN nullptr
                    ELSE d.quantumAllocators[t].partitions[partitionIndex].base
                         + orderMul(found.ret,
                               d.quantumAllocators[t].partitions[partitionIndex]
                                   .quantumSizeOrder)] :
           found \in {findFree(d.quantumAllocators[t].partitions[partitionIndex].registry)} })

\* Partition::deallocate
Partition_deallocate(d, t, partitionIndex, address) ==
    LET partition == d.quantumAllocators[t].partitions[partitionIndex]
    IN  [d EXCEPT !.quantumAllocators[t].partitions[partitionIndex].registry
                      = free(@, quantumIndex(partition, address))]


(***************************************************************************)
(* QuantumAllocator (qba.cpp 3420-4290).  t is the index of the quantum    *)
(* allocator in Director::_quantumAllocators.                              *)
(***************************************************************************)
\* QuantumAllocator::getOrderIndex
getOrderIndex(qa, size) == sizeToOrder(size) - qa.smallestSizeOrder

\* QuantumAllocator::getPartitionIndex
getPartitionIndex(qa, address) ==
    addressGetIndex(address, qa.base, qa.partitionSizeOrder)

\* QuantumAllocator::partitionBase
partitionBase(qa, partitionIndex) ==
    qa.base + orderMul(partitionIndex, qa.partitionSizeOrder)

\* QuantumAllocator::newPartition: placement new of a Partition
newPartition(d, t, partitionIndex, size) ==
    LET qa == d.quantumAllocators[t]
    IN  [d EXCEPT !.quantumAllocators[t].partitions[partitionIndex] =
            Partition(partitionBase(qa, partitionIndex), qa.partitionSize, size,
                      qa.sideDataSize,
                      qa.sideData + qa.sideDataSize * partitionIndex
                                    * MAX_PARTITION_QUANTUM)]

\* QuantumAllocator::onlinePartition
onlinePartition(d, t, partitionIndex, orderIndex) ==
    [d EXCEPT !.quantumAllocators[t].orderRegistry[orderIndex] =
                  set(@, partitionIndex)]

\* QuantumAllocator::offlinePartition; cleared is what Registry::clear
\* returns, whether the bit was set before
offlinePartition(d, t, partitionIndex, orderIndex) ==
    LET qa == d.quantumAllocators[t]
        orderRegistry == qa.orderRegistry[orderIndex]
    IN  [d |-> [d EXCEPT
                  !.quantumAllocators[t].orderRegistry[orderIndex] =
                      clear(@, partitionIndex),
                  !.roster[qa.smallestSizeOrder + orderIndex] =
                      QuantumAllocatorRef(t)],
         cleared |-> isSet(orderRegistry, partitionIndex)]

\* QuantumAllocator::addToOrder
addToOrder(d, t, orderIndex, partitionIndex) ==
    LET d1 == onlinePartition(d, t, partitionIndex, orderIndex)
    IN  [d1 EXCEPT !.roster[d.quantumAllocators[t].smallestSizeOrder + orderIndex] =
                       PartitionRef(t, partitionIndex)]

\* QuantumAllocator::allocatePartition
allocatePartition(d, t) ==
    only({ IF found.ret # NOT_FOUND
           THEN [d   |-> System_commit(
                             [d EXCEPT !.quantumAllocators[t].partitionRegistry = found.reg],
                             partitionBase(d.quantumAllocators[t], found.ret),
                             d.quantumAllocators[t].partitionSize),
                 ret |-> found.ret]
           ELSE [d   |-> [d EXCEPT !.quantumAllocators[t].partitionRegistry = found.reg],
                 ret |-> NOT_FOUND] :
           found \in {findFree(d.quantumAllocators[t].partitionRegistry)} })

\* QuantumAllocator::newOrderPartition; ret is the index of the partition
\* returned, NOT_FOUND for nullptr
newOrderPartition(d, t, orderIndex) ==
    only({ IF got.ret = NOT_FOUND
           THEN [d |-> got.d, ret |-> NOT_FOUND]
           ELSE [d   |-> addToOrder(
                             newPartition(got.d, t, got.ret,
                                 orderToSize(orderIndex +
                                     d.quantumAllocators[t].smallestSizeOrder)),
                             t, orderIndex, got.ret),
                 ret |-> got.ret] :
           got \in {allocatePartition(d, t)} })

\* QuantumAllocator::freeUpPartition, the loop from partitionIndex down
RECURSIVE freeUpPartitionFrom(_, _, _, _)
freeUpPartitionFrom(d, t, orderIndex, partitionIndex) ==
    IF partitionIndex < 0 THEN [d |-> d, ret |-> NOT_FOUND]
    ELSE IF ~Partition_isEmpty(d.quantumAllocators[t].partitions[partitionIndex])
    THEN freeUpPartitionFrom(d, t, orderIndex, partitionIndex - 1)
    ELSE only({
           IF ~off.cleared \/
              ~Partition_isEmpty(off.d.quantumAllocators[t].partitions[partitionIndex])
           THEN freeUpPartitionFrom(
                    onlinePartition(off.d, t, partitionIndex, orderIndex),
                    t, orderIndex, partitionIndex - 1)
           ELSE [d   |-> addToOrder(
                             newPartition(off.d, t, partitionIndex,
                                 orderToSize(orderIndex +
                                     d.quantumAllocators[t].smallestSizeOrder)),
                             t, orderIndex, partitionIndex),
                 ret |-> partitionIndex] :
           off \in {offlinePartition(d, t, partitionIndex, orderIndex)} })

freeUpPartition(d, t, orderIndex) ==
    freeUpPartitionFrom(d, t, orderIndex,
                        d.quantumAllocators[t].partitionCount - 1)

\* QuantumAllocator::getFreePartition
getFreePartition(d, t, orderIndex) ==
    only({ IF fresh.ret # NOT_FOUND THEN fresh
           ELSE freeUpPartition(fresh.d, t, orderIndex) :
           fresh \in {newOrderPartition(d, t, orderIndex)} })

\* PartitionIterator::next with allocateNew and continuous set; index is the
\* position of the underlying RegistryIsSetIterator.  Returns the partition
\* index (NOT_FOUND for nullptr) and the iterator's new position.
PartitionIterator_next(d, t, orderIndex, index) ==
    only({ IF partitionIndex # NOT_FOUND
           THEN [d |-> d, ret |-> partitionIndex, index |-> partitionIndex + 1]
           ELSE only({ [d |-> got.d, ret |-> got.ret,
                        index |-> d.quantumAllocators[t].orderRegistry[orderIndex]
                                      .maximumIndex] :
                       got \in {getFreePartition(d, t, orderIndex)} }) :
           partitionIndex \in
               {nextSet(d.quantumAllocators[t].orderRegistry[orderIndex], index)} })

\* QuantumAllocator::allocate, the loop over the iterator
RECURSIVE QuantumAllocator_allocateFrom(_, _, _, _)
QuantumAllocator_allocateFrom(d, t, size, index) ==
    only({ IF step.ret = NOT_FOUND THEN [d |-> step.d, ret |-> nullptr]
           ELSE only({ IF got.ret # nullptr THEN got
                       ELSE QuantumAllocator_allocateFrom(got.d, t, size, step.index) :
                       got \in {Partition_allocate(step.d, t, step.ret)} }) :
           step \in {PartitionIterator_next(d, t,
                         getOrderIndex(d.quantumAllocators[t], size), index)} })

QuantumAllocator_allocate(d, t, size) == QuantumAllocator_allocateFrom(d, t, size, 0)

\* QuantumAllocator::deallocate
QuantumAllocator_deallocate(d, t, address) ==
    Partition_deallocate(d, t,
        getPartitionIndex(d.quantumAllocators[t], address), address)

\* QuantumAllocator::allocationSize
QuantumAllocator_allocationSize(d, t, address) ==
    LET qa == d.quantumAllocators[t]
    IN  quantumSize(qa.partitions[getPartitionIndex(qa, address)])


(***************************************************************************)
(* The operating system (System, qba.cpp 990-1270).  The address space     *)
(* that mmap hands out is OsUnits units of SLAB_ALIGNMENT bytes above the  *)
(* arena; mapped is the set of units currently mapped.                     *)
(***************************************************************************)
SLAB_ALIGNMENT == orderToSize(LARGEST_SIZE_ORDER)

OsBase ==
    roundUp(ArenaBase + sizes(0) + sizes(1) + sizes(2), SLAB_ALIGNMENT)
    + SLAB_ALIGNMENT

unitAddress(u) == OsBase + u * SLAB_ALIGNMENT

\* the pages of a unit, and the address of a page of that address space
PagesPerUnit == SLAB_ALIGNMENT \div PAGE_SIZE

pageAddress(p) == OsBase + p * PAGE_SIZE

\* what the operating system does with an mmap: it places the mapping at the
\* first page of a unit, or (-1) fails
OsChoices == {-1} \cup { u * PagesPerUnit : u \in 0 .. (OsUnits - 1) }

\* the same with pages that are not the first of a unit as places too: of
\* each unit the first two pages and the last one
OsPages ==
    {-1} \cup UNION { { u * PagesPerUnit, u * PagesPerUnit + 1, (u + 1) * PagesPerUnit - 1 } :
                        u \in 0 .. (OsUnits - 1) }

unitsOf(address, size) ==
    { u \in 0 .. (OsUnits - 1) :
        address <= unitAddress(u) /\ unitAddress(u) < address + size }

\* System::release: munmap
System_release(d, address, size) ==
    [d EXCEPT !.mapped = @ \ unitsOf(address, size),
              !.nonzero = @ \ wordsOf(address, size)]

\* Address::align
align(address, alignment) == roundUp(address, alignment)

\* System::reserve with no location: mmap, nullptr for MAP_FAILED.  os is
\* the page at which the operating system places the mapping, or -1.
System_reserve(size, os) == IF os < 0 THEN nullptr ELSE pageAddress(os)

\* the units that hold a byte of [address, address + size)
unitsMeeting(address, size) ==
    { u \in 0 .. (OsUnits - 1) :
        unitAddress(u) < address + size /\ address < unitAddress(u + 1) }

\* System::reserveAligned without the alignment of the address that mmap gave
System_reserveAligned_unaligned(d, size, alignment, os) ==
    LET reserveSize == size + alignment - PAGE_SIZE
        address == System_reserve(reserveSize, os)
    IN  IF /\ address # nullptr
           /\ address + size <= unitAddress(OsUnits)
           /\ unitsMeeting(address, reserveSize) \cap d.mapped = {}
        THEN [d |-> [d EXCEPT !.mapped = @ \cup unitsMeeting(address, size)],
              ret |-> address]
        ELSE [d |-> d, ret |-> nullptr]

\* System::reserveAligned: over reserve by the alignment less a page, excise
\* the aligned range and release the excess before and after it.  The
\* operating system places a mapping only where nothing is mapped, and the
\* aligned range lies in the address space followed; any other placement is
\* a request that cannot be satisfied.  When mmap fails the result is
\* nullptr (the munmap of the excess then made at address size touches
\* nothing that is followed).
System_reserveAligned(d, size, alignment, os) ==
    LET reserveSize == size + alignment - PAGE_SIZE
        address == System_reserve(reserveSize, os)
        base == align(address, alignment)
    IN  IF /\ address # nullptr
           /\ base + size <= unitAddress(OsUnits)
           /\ unitsMeeting(address, reserveSize) \cap d.mapped = {}
        THEN [d |-> [d EXCEPT !.mapped = @ \cup unitsOf(base, size)], ret |-> base]
        ELSE [d |-> d, ret |-> nullptr]

(***************************************************************************)
(* SlabAllocator (qba.cpp 4299-4830).                                      *)
(***************************************************************************)
\* Slab::Slab
Slab(base, size) == [base |-> base, size |-> size]

\* SlabAllocator::SlabAllocator over zero filled slab records
SlabAllocator(maxCount, sideDataSize, sideData) ==
    [ maxCount |-> maxCount,
      sideDataSize |-> sideDataSize,
      sideData |-> sideData,
      slabs    |-> [i \in 0 .. (maxCount - 1) |-> Slab(0, 0)],
      registry |-> Registry(maxCount) ]

\* SlabAllocator::find that does not look at the registry
find_ignoresRegistry(sa, address) ==
    IF \E i \in 0 .. (sa.maxCount - 1) : in(sa.slabs[i], address)
    THEN CHOOSE i \in 0 .. (sa.maxCount - 1) :
             /\ in(sa.slabs[i], address)
             /\ \A j \in 0 .. (i - 1) : ~in(sa.slabs[j], address)
    ELSE NOT_FOUND

\* SlabAllocator::find
RECURSIVE findSlabFrom(_, _, _)
findSlabFrom(sa, address, i) ==
    IF i >= sa.maxCount THEN NOT_FOUND
    ELSE IF in(sa.slabs[i], address) /\ isSet(sa.registry, i) THEN i
    ELSE findSlabFrom(sa, address, i + 1)

find(sa, address) == findSlabFrom(sa, address, 0)

\* SlabAllocator::reserve
reserve(d, size, os) ==
    only({
      IF found.ret = NOT_FOUND
      THEN [d |-> [d EXCEPT !.slabAllocator.registry = found.reg], ret |-> nullptr]
      ELSE only({
        IF slab.size >= size
        THEN \* old slab is large enough: discard the extra, reuse the base
             [d   |-> [(IF d.secure THEN System_commit(d2, slab.base, size) ELSE d2)
                          EXCEPT !.slabAllocator.slabs[found.ret] = Slab(slab.base, size)],
              ret |-> slab.base]
        ELSE \* discard the old slab, if any, and map a new one
             only({
               IF got.ret = nullptr
               THEN [d   |-> [got.d EXCEPT !.slabAllocator.registry = free(@, found.ret)],
                     ret |-> nullptr]
               ELSE [d   |-> [System_commit(got.d, got.ret, size)
                                 EXCEPT !.slabAllocator.slabs[found.ret] = Slab(got.ret, size)],
                     ret |-> got.ret] :
               got \in {System_reserveAligned(
                            IF slab.size # 0
                            THEN System_release(d2, slab.base, slab.size) ELSE d2,
                            size, SLAB_ALIGNMENT, os)} }) :
        slab \in {d.slabAllocator.slabs[found.ret]},
        d2 \in {IF d.slabAllocator.slabs[found.ret].size > size
                THEN System_release(
                         [d EXCEPT !.slabAllocator.registry = found.reg],
                         d.slabAllocator.slabs[found.ret].base + size,
                         d.slabAllocator.slabs[found.ret].size - size)
                ELSE [d EXCEPT !.slabAllocator.registry = found.reg]} }) :
      found \in {findFree(d.slabAllocator.registry)} })

\* SlabAllocator::allocate
SlabAllocator_allocate(d, size, os) == reserve(d, roundUp(size, M), os)

\* SlabAllocator::erase
erase(d, index) == [d EXCEPT !.slabAllocator.registry = free(@, index)]

\* SlabAllocator::deallocate
SlabAllocator_deallocate(d, address) ==
    LET index == find(d.slabAllocator, address)
    IN  IF index = NOT_FOUND THEN d ELSE erase(d, index)

\* SlabAllocator::allocationSize
SlabAllocator_allocationSize(d, address) ==
    LET index == find(d.slabAllocator, address)
    IN  IF index = NOT_FOUND THEN ZERO ELSE d.slabAllocator.slabs[index].size


(***************************************************************************)
(* Director (qba.cpp 4900-5950).                                           *)
(***************************************************************************)
Orders == 0 .. (MAX_ORDER - 1)

\* Director::Director without the second setAllocators call, which gives the
\* orders from 1 to SMALLEST_SIZE_ORDER to the first quantum allocator
DirectorRoster_noLowOrders ==
    [ order \in Orders |->
        IF MAX_ALLOCATION_ORDER <= order /\ order < MAX_ORDER
        THEN NullAllocator
        ELSE IF LARGEST_SIZE_ORDER + 1 <= order /\ order < MAX_ALLOCATION_ORDER
        THEN SlabAllocatorRef
        ELSE IF \E t \in Tiers :
                    /\ tierSmallestSizeOrder(t) <= order
                    /\ order < tierSmallestSizeOrder(t) + MAX_QUANTUM_ALLOCATOR_ORDERS
        THEN QuantumAllocatorRef(
                 CHOOSE t \in Tiers :
                    /\ tierSmallestSizeOrder(t) <= order
                    /\ order < tierSmallestSizeOrder(t) + MAX_QUANTUM_ALLOCATOR_ORDERS)
        ELSE NullAllocator ]

\* Director::Director: fill out the roster.  Later assignments overwrite
\* earlier ones, as the successive setAllocators calls do.
DirectorRoster ==
    [ order \in Orders |->
        IF MAX_ALLOCATION_ORDER <= order /\ order < MAX_ORDER
        THEN NullAllocator
        ELSE IF LARGEST_SIZE_ORDER + 1 <= order /\ order < MAX_ALLOCATION_ORDER
        THEN SlabAllocatorRef
        ELSE IF \E t \in Tiers :
                    /\ tierSmallestSizeOrder(t) <= order
                    /\ order < tierSmallestSizeOrder(t) + MAX_QUANTUM_ALLOCATOR_ORDERS
        THEN QuantumAllocatorRef(
                 CHOOSE t \in Tiers :
                    /\ tierSmallestSizeOrder(t) <= order
                    /\ order < tierSmallestSizeOrder(t) + MAX_QUANTUM_ALLOCATOR_ORDERS)
        ELSE IF 1 <= order /\ order < SMALLEST_SIZE_ORDER + 1
        THEN QuantumAllocatorRef(0)
        ELSE NullAllocator ]

\* Director::createDirector: the allocator state after construction
createDirectorWith(secure, sideDataSize) ==
    [ secure            |-> secure,
      roster            |-> DirectorRoster,
      quantumAllocators |->
          [ t \in Tiers |->
              QuantumAllocator(tierSmallestSizeOrder(t),
                               tierSmallestSizeOrder(t)
                                   + MAX_QUANTUM_ALLOCATOR_ORDERS - 1,
                               tierPartitionSizeOrder(t),
                               partitionCounts(t),
                               bases(t),
                               sideDataSize,
                               sideDatasOf(sideDataSize, t)) ],
      slabAllocator     |-> SlabAllocator(MaxSlabCount, sideDataSize,
                                          sideDatasOf(sideDataSize,
                                                      MAX_QUANTUM_ALLOCATORS)),
      mapped            |-> {},
      reference         |-> nullptr,
      wrote             |-> {},
      nonzero           |-> {} ]

\* qba_create with SideDataSize bytes of side data
createDirector(secure) == createDirectorWith(secure, SideDataSize)

\* Director::findAllocatorBySize
findAllocatorBySize(d, size) == d.roster[sizeToOrder(size)]

\* the quantum allocator whose range holds address, NOT_FOUND if none: the
\* loop over _quantumAllocators of deallocate, clear, allocationSize, ...
quantumAllocatorOf(d, address) ==
    IF \E t \in Tiers : in(d.quantumAllocators[t], address)
    THEN CHOOSE t \in Tiers :
             /\ in(d.quantumAllocators[t], address)
             /\ \A u \in Tiers : in(d.quantumAllocators[u], address) => t <= u
    ELSE NOT_FOUND

\* Director::allocate
Director_allocate(d, size, os) ==
    only({
      IF first.ret # nullptr THEN first
      ELSE IF allocator.id \in {PartitionID, QuantumAllocatorID}
      THEN QuantumAllocator_allocate(first.d, allocator.t, roundUpPowerOf2(size))
      ELSE IF allocator.id = SlabAllocatorID
      THEN SlabAllocator_allocate(first.d, roundUpPowerOf2(size), os)
      ELSE [d |-> first.d, ret |-> nullptr] :
      allocator \in {findAllocatorBySize(d, roundUpPowerOf2(size))},
      first \in {IF findAllocatorBySize(d, roundUpPowerOf2(size)).id = PartitionID
                 THEN Partition_allocate(d,
                          findAllocatorBySize(d, roundUpPowerOf2(size)).t,
                          findAllocatorBySize(d, roundUpPowerOf2(size)).p)
                 ELSE [d |-> d, ret |-> nullptr]} })

\* Partition::allocationBase
Partition_allocationBase(partition, address) ==
    address - (address % quantumSize(partition))

\* Partition::clear
Partition_clear(d, t, partitionIndex, address) ==
    LET partition == d.quantumAllocators[t].partitions[partitionIndex]
    IN  System_clear(d, Partition_allocationBase(partition, address),
                     quantumSize(partition))

\* QuantumAllocator::clear
QuantumAllocator_clear(d, t, address) ==
    Partition_clear(d, t, getPartitionIndex(d.quantumAllocators[t], address),
                    address)

\* Director::deallocate
Director_deallocate(d, address) ==
    LET t == quantumAllocatorOf(d, address)
    IN  IF t # NOT_FOUND
        THEN QuantumAllocator_deallocate(
                 IF d.secure THEN QuantumAllocator_clear(d, t, address) ELSE d,
                 t, address)
        ELSE SlabAllocator_deallocate(d, address)

\* Director::allocationSize
Director_allocationSize(d, address) ==
    LET t == quantumAllocatorOf(d, address)
    IN  IF t # NOT_FOUND
        THEN QuantumAllocator_allocationSize(d, t, address)
        ELSE SlabAllocator_allocationSize(d, address)

\* Partition::allocationSideData
Partition_allocationSideData(partition, address) ==
    partition.sidedata + quantumIndex(partition, address) * partition.sideDataSize

\* QuantumAllocator::allocationBase
QuantumAllocator_allocationBase(d, t, address) ==
    Partition_allocationBase(
        d.quantumAllocators[t].partitions[
            getPartitionIndex(d.quantumAllocators[t], address)],
        address)

\* QuantumAllocator::allocationSideData
QuantumAllocator_allocationSideData(d, t, address) ==
    Partition_allocationSideData(
        d.quantumAllocators[t].partitions[
            getPartitionIndex(d.quantumAllocators[t], address)],
        address)

\* SlabAllocator::allocationBase for the slab found at index
SlabAllocator_allocationBaseAt(d, index) ==
    IF index = NOT_FOUND THEN nullptr ELSE d.slabAllocator.slabs[index].base

\* SlabAllocator::allocationBase
SlabAllocator_allocationBase(d, address) ==
    SlabAllocator_allocationBaseAt(d, find(d.slabAllocator, address))

\* SlabAllocator::allocationSideData for the slab found at index
SlabAllocator_allocationSideDataAt(d, index) ==
    IF index = NOT_FOUND THEN nullptr
    ELSE d.slabAllocator.sideData + index * d.slabAllocator.sideDataSize

\* SlabAllocator::allocationSideData
SlabAllocator_allocationSideData(d, address) ==
    SlabAllocator_allocationSideDataAt(d, find(d.slabAllocator, address))

\* Director::allocationBase, on the quantum allocator t that holds address
Director_allocationBaseIn(d, t, address) ==
    IF t # NOT_FOUND
    THEN QuantumAllocator_allocationBase(d, t, address)
    ELSE SlabAllocator_allocationBase(d, address)

\* Director::allocationBase
Director_allocationBase(d, address) ==
    Director_allocationBaseIn(d, quantumAllocatorOf(d, address), address)

\* Director::allocationSideData, on the quantum allocator t that holds address
Director_allocationSideDataIn(d, t, address) ==
    IF t # NOT_FOUND
    THEN QuantumAllocator_allocationSideData(d, t, address)
    ELSE SlabAllocator_allocationSideData(d, address)

\* Director::allocationSideData
Director_allocationSideData(d, address) ==
    Director_allocationSideDataIn(d, quantumAllocatorOf(d, address), address)

\* Director::reallocate that also moves a block whose size equals the rounded
\* request
Director_reallocate_moves(d, oldAddress, newSize, os) ==
    IF oldAddress = nullptr THEN Director_allocate(d, newSize, os)
    ELSE only({
      IF oldSize <= roundUpPowerOf2(newSize) \/
         sizeToOrder(newSize) < sizeToOrder(oldSize)
      THEN only({
             IF got.ret # nullptr /\ oldSize # ZERO
             THEN [d   |-> Director_deallocate(
                               System_copy(got.d, oldAddress, got.ret, oldSize),
                               oldAddress),
                   ret |-> got.ret]
             ELSE got :
             got \in {Director_allocate(d, newSize, os)} })
      ELSE [d |-> d, ret |-> oldAddress] :
      oldSize \in {Director_allocationSize(d, oldAddress)} })

\* Director::reallocate
Director_reallocate(d, oldAddress, newSize, os) ==
    IF oldAddress = nullptr THEN Director_allocate(d, newSize, os)
    ELSE only({
      IF oldSize < roundUpPowerOf2(newSize) \/
         sizeToOrder(newSize) < sizeToOrder(oldSize)
      THEN only({
             IF got.ret # nullptr /\ oldSize # ZERO
             THEN [d   |-> Director_deallocate(
                               System_copy(got.d, oldAddress, got.ret, oldSize),
                               oldAddress),
                   ret |-> got.ret]
             ELSE got :
             got \in {Director_allocate(d, newSize, os)} })
      ELSE [d |-> d, ret |-> oldAddress] :
      oldSize \in {Director_allocationSize(d, oldAddress)} })

(***************************************************************************)
(* Bulk deallocation (DeallocateBulk, qba.cpp 2352-2434, and the           *)
(* deallocateBulk functions).  An address buffer is a sequence; the C++    *)
(* (count, addresses) pair is the sequence from that address on.           *)
(***************************************************************************)
\* DeallocateBulk::DeallocateBulk; registry is the registry being updated
DeallocateBulk(registry) ==
    [registry |-> registry, wordIndex |-> NOT_FOUND, value |-> ZERO]

\* DeallocateBulk::flush
DeallocateBulk_flush(b) ==
    IF b.wordIndex # NOT_FOUND
    THEN [ registry  |-> clearMask(b.registry, b.wordIndex, b.value),
           wordIndex |-> NOT_FOUND,
           value     |-> ZERO ]
    ELSE b

\* DeallocateBulk::clear
DeallocateBulk_clear(b, index) ==
    [ (IF getWordIndex(index) # b.wordIndex
       THEN [DeallocateBulk_flush(b) EXCEPT !.wordIndex = getWordIndex(index)]
       ELSE b)
      EXCEPT !.value = bitOr(@, twoToOrder(getBitIndex(index))) ]

\* Partition::deallocateBulk, the loop from addresses[deallocated] on; the
\* DeallocateBulk object is flushed by its destructor on return
RECURSIVE Partition_deallocateBulkFrom(_, _, _, _, _, _)
Partition_deallocateBulkFrom(d, t, partitionIndex, addresses, deallocated, b) ==
    IF deallocated < Len(addresses) /\
       in(d.quantumAllocators[t].partitions[partitionIndex], addresses[deallocated + 1])
    THEN Partition_deallocateBulkFrom(
             IF d.secure
             THEN System_clear(d, addresses[deallocated + 1],
                      quantumSize(d.quantumAllocators[t].partitions[partitionIndex]))
             ELSE d,
             t, partitionIndex, addresses, deallocated + 1,
             DeallocateBulk_clear(b,
                 quantumIndex(d.quantumAllocators[t].partitions[partitionIndex],
                              addresses[deallocated + 1])))
    ELSE [ d   |-> [d EXCEPT !.quantumAllocators[t].partitions[partitionIndex].registry
                                 = DeallocateBulk_flush(b).registry],
           ret |-> deallocated ]

Partition_deallocateBulk(d, t, partitionIndex, addresses) ==
    Partition_deallocateBulkFrom(d, t, partitionIndex, addresses, 0,
        DeallocateBulk(d.quantumAllocators[t].partitions[partitionIndex].registry))

\* QuantumAllocator::deallocateBulk, the loop from addresses[deallocated] on
RECURSIVE QuantumAllocator_deallocateBulkFrom(_, _, _, _)
QuantumAllocator_deallocateBulkFrom(d, t, addresses, deallocated) ==
    IF deallocated < Len(addresses) /\
       in(d.quantumAllocators[t], addresses[deallocated + 1])
    THEN only({ QuantumAllocator_deallocateBulkFrom(
                    got.d, t, addresses, deallocated + got.ret) :
                got \in {Partition_deallocateBulk(d, t,
                            getPartitionIndex(d.quantumAllocators[t],
                                              addresses[deallocated + 1]),
                            SubSeq(addresses, deallocated + 1, Len(addresses)))} })
    ELSE [d |-> d, ret |-> deallocated]

QuantumAllocator_deallocateBulk(d, t, addresses) ==
    QuantumAllocator_deallocateBulkFrom(d, t, addresses, 0)

\* SlabAllocator::deallocateBulk, the loop from addresses[i] on
RECURSIVE SlabAllocator_deallocateBulkFrom(_, _, _)
SlabAllocator_deallocateBulkFrom(d, addresses, i) ==
    IF i < Len(addresses)
    THEN IF addresses[i + 1] = nullptr THEN [d |-> d, ret |-> i]
         ELSE SlabAllocator_deallocateBulkFrom(
                  SlabAllocator_deallocate(d, addresses[i + 1]), addresses, i + 1)
    ELSE [d |-> d, ret |-> Len(addresses)]

SlabAllocator_deallocateBulk(d, addresses) ==
    SlabAllocator_deallocateBulkFrom(d, addresses, 0)

\* Director::deallocateBulk, one turn of its while loop with deallocated
\* addresses done so far; ret is the new value of deallocated.  The allocator
\* found is handed count and addresses as the caller gave them.
Director_deallocateBulkTurn(d, addresses, deallocated) ==
    IF quantumAllocatorOf(d, addresses[deallocated + 1]) # NOT_FOUND
    THEN only({ [d |-> got.d, ret |-> deallocated + got.ret] :
                got \in {QuantumAllocator_deallocateBulk(d,
                            quantumAllocatorOf(d, addresses[deallocated + 1]),
                            addresses)} })
    ELSE only({ [d |-> got.d,
                 ret |-> deallocated + (IF got.ret # 0 THEN got.ret ELSE 1)] :
                got \in {SlabAllocator_deallocateBulk(d, addresses)} })


(***************************************************************************)
(* stats.  st is the pair of arrays [counts, sizes] being filled.          *)
(***************************************************************************)
\* counts[order] += count; sizes[order] += size
tally(st, order, count, size) ==
    [ counts |-> [st.counts EXCEPT ![order] = @ + count],
      sizes  |-> [st.sizes EXCEPT ![order] = @ + size] ]

\* Partition::stats
Partition_stats(partition, st) ==
    tally(st, partition.quantumSizeOrder, countBits(partition.registry),
          orderMul(countBits(partition.registry), partition.quantumSizeOrder))

\* QuantumAllocator::stats: the for loop from partition i on
RECURSIVE QuantumAllocator_statsFrom(_, _, _)
QuantumAllocator_statsFrom(qa, st, i) ==
    IF ~(i < qa.partitionCount) THEN st
    ELSE QuantumAllocator_statsFrom(qa,
             IF isSet(qa.partitionRegistry, i)
             THEN Partition_stats(qa.partitions[i], st) ELSE st,
             i + 1)

\* QuantumAllocator::stats
QuantumAllocator_stats(qa, st) ==
    QuantumAllocator_statsFrom(qa,
        tally(st, 1, 0, SizeofObject + qa.partitionCount * SizeofObject), 0)

\* SlabAllocator::stats: the for loop from slot i on
RECURSIVE SlabAllocator_statsFrom(_, _, _)
SlabAllocator_statsFrom(sa, st, i) ==
    IF ~(i < sa.maxCount) THEN st
    ELSE SlabAllocator_statsFrom(sa,
             IF isSet(sa.registry, i)
             THEN tally(st, sizeToOrder(sa.slabs[i].size), 1, sa.slabs[i].size)
             ELSE st,
             i + 1)

\* SlabAllocator::stats
SlabAllocator_stats(sa, st) ==
    SlabAllocator_statsFrom(sa,
        tally(st, 1, 0, SizeofObject + sa.maxCount * SizeofObject), 0)

\* Director::stats: the calls of stats of the quantum allocators from i on
RECURSIVE Director_statsFrom(_, _, _)
Director_statsFrom(d, st, i) ==
    IF ~(i < MAX_QUANTUM_ALLOCATORS) THEN st
    ELSE Director_statsFrom(d, QuantumAllocator_stats(d.quantumAllocators[i], st),
                            i + 1)

\* the sum of the slots from i on of an array of stats
RECURSIVE sumFrom(_, _)
sumFrom(array, i) ==
    IF ~(i < QB_STATS_SIZE) THEN 0 ELSE array[i] + sumFrom(array, i + 1)

\* Director::stats
Director_stats(d) ==
    only({ [ counts |-> [st.counts EXCEPT ![0] = sumFrom(st.counts, 1)],
             sizes  |-> [st.sizes EXCEPT ![0] = sumFrom(st.sizes, 1)] ] :
           st \in {SlabAllocator_stats(d.slabAllocator,
                      Director_statsFrom(d,
                          tally([ counts |-> [k \in 0 .. (QB_STATS_SIZE - 1) |-> 0],
                                  sizes  |-> [k \in 0 .. (QB_STATS_SIZE - 1) |-> 0] ],
                                1, 1, SizeofObject),
                          0))} })

(***************************************************************************)
(* The walk over the allocations: nextAllocation.                          *)
(***************************************************************************)
\* Partition::nextAllocation
Partition_nextAllocation(partition, address) ==
    only({ IF index = NOT_FOUND THEN nullptr
           ELSE partition.base + orderMul(index, partition.quantumSizeOrder) :
           index \in {nextSet(partition.registry,
                              IF address # nullptr
                              THEN quantumIndex(partition, address) + 1 ELSE 0)} })

\* QuantumAllocator::nextAllocation: the while loop from index on
RECURSIVE QuantumAllocator_nextAllocationFrom(_, _, _)
QuantumAllocator_nextAllocationFrom(qa, address, index) ==
    IF ~(index < qa.partitionCount) THEN nullptr
    ELSE only({ IF next # nullptr THEN next
                ELSE QuantumAllocator_nextAllocationFrom(qa, nullptr, index + 1) :
                next \in {IF isSet(qa.partitionRegistry, index)
                          THEN Partition_nextAllocation(qa.partitions[index], address)
                          ELSE nullptr} })

\* QuantumAllocator::nextAllocation
QuantumAllocator_nextAllocation(qa, address) ==
    QuantumAllocator_nextAllocationFrom(qa, address,
        IF address # nullptr /\ in(qa, address)
        THEN getPartitionIndex(qa, address) ELSE 0)

\* SlabAllocator::nextAllocation, index being what find returned
SlabAllocator_nextAllocationAt(sa, address, index) ==
    IF address # nullptr /\ index = NOT_FOUND THEN nullptr
    ELSE only({ IF next # NOT_FOUND THEN sa.slabs[next].base ELSE nullptr :
                next \in {nextSet(sa.registry, index + 1)} })

\* SlabAllocator::nextAllocation
SlabAllocator_nextAllocation(sa, address) ==
    SlabAllocator_nextAllocationAt(sa, address,
        IF address # nullptr THEN find(sa, address) ELSE -1)

\* Director::nextAllocation: the for loop from quantum allocator i on
RECURSIVE Director_nextAllocationFrom(_, _, _)
Director_nextAllocationFrom(d, address, i) ==
    IF ~(i < MAX_QUANTUM_ALLOCATORS)
    THEN SlabAllocator_nextAllocation(d.slabAllocator, address)
    ELSE IF address = nullptr \/ in(d.quantumAllocators[i], address)
    THEN only({ IF next # nullptr THEN next
                ELSE Director_nextAllocationFrom(d, nullptr, i + 1) :
                next \in {QuantumAllocator_nextAllocation(d.quantumAllocators[i],
                                                          address)} })
    ELSE Director_nextAllocationFrom(d, address, i + 1)

\* Director::nextAllocation
Director_nextAllocation(d, address) == Director_nextAllocationFrom(d, address, 0)

(***************************************************************************)
(* Runs of consecutive quanta: allocateCount and deallocateCount.          *)
(***************************************************************************)
\* Partition::allocateCount on a partition given by value: the partition it
\* leaves and the address it returns
Partition_allocateCountIn(partition, count, ub) ==
    IF orderDiv(partition.size, partition.quantumSizeOrder) < count
    THEN [partition |-> partition, ret |-> nullptr]
    ELSE only({ [partition |-> [partition EXCEPT !.registry = found.reg],
                 ret |-> IF found.ret = NOT_FOUND THEN nullptr
                         ELSE partition.base
                              + orderMul(found.ret, partition.quantumSizeOrder)] :
                found \in {findFreeRange(partition.registry, count, ub)} })

\* Partition::allocateCount on partition partitionIndex of tier t
Partition_allocateCount(d, t, partitionIndex, count, ub) ==
    only({ [d   |-> [d EXCEPT !.quantumAllocators[t].partitions[partitionIndex]
                                  = got.partition],
            ret |-> got.ret] :
           got \in {Partition_allocateCountIn(
                        d.quantumAllocators[t].partitions[partitionIndex],
                        count, ub)} })

\* Partition::deallocateCount, up to the call of Registry::freeRange
Partition_deallocateCountClear(d, t, partitionIndex, address, count) ==
    IF d.secure
    THEN System_clear(d, address,
             orderMul(count, d.quantumAllocators[t].partitions[partitionIndex]
                                 .quantumSizeOrder))
    ELSE d

\* Partition::deallocateCount, from the call of Registry::freeRange on
Partition_deallocateCountFree(d, t, partitionIndex, address, count, ub) ==
    [d EXCEPT !.quantumAllocators[t].partitions[partitionIndex].registry =
                  freeRange(@, quantumIndex(
                                   d.quantumAllocators[t].partitions[partitionIndex],
                                   address),
                            count, ub)]

\* Partition::deallocateCount
Partition_deallocateCount(d, t, partitionIndex, address, count, ub) ==
    Partition_deallocateCountFree(
        Partition_deallocateCountClear(d, t, partitionIndex, address, count),
        t, partitionIndex, address, count, ub)

\* QuantumAllocator::allocateCount: one turn of the loop over the iterator,
\* which stands at index.  loop tells whether the loop goes on; when it
\* does not, ret is what the call returns.
QuantumAllocator_allocateCountTurn(d, t, size, count, index, ub) ==
    only({ IF step.ret = NOT_FOUND
           THEN [d |-> step.d, ret |-> nullptr, index |-> step.index, loop |-> FALSE]
           ELSE only({ [d |-> got.d, ret |-> got.ret, index |-> step.index,
                        loop |-> got.ret = nullptr] :
                       got \in {Partition_allocateCount(step.d, t, step.ret,
                                                        count, ub)} }) :
           step \in {PartitionIterator_next(d, t,
                         getOrderIndex(d.quantumAllocators[t], size), index)} })

\* QuantumAllocator::deallocateCount
QuantumAllocator_deallocateCount(d, t, address, count, ub) ==
    Partition_deallocateCount(d, t,
        getPartitionIndex(d.quantumAllocators[t], address), address, count, ub)

\* SlabAllocator::allocateCount
SlabAllocator_allocateCount(d, size, count, os) ==
    reserve(d, roundUp(size * count, M), os)

\* SlabAllocator::deallocateCount on the slab found at index
SlabAllocator_deallocateCountAt(d, index) ==
    IF index = NOT_FOUND THEN d
    ELSE erase(System_release(d, d.slabAllocator.slabs[index].base,
                              d.slabAllocator.slabs[index].size),
               index)

\* SlabAllocator::deallocateCount
SlabAllocator_deallocateCount(d, address) ==
    SlabAllocator_deallocateCountAt(d, find(d.slabAllocator, address))

\* Director::allocateCount up to the loop of QuantumAllocator::allocateCount:
\* loop tells whether the call enters that loop, on the quantum allocator t;
\* when it does not, ret is what the call returns
Director_allocateCountEnter(d, size, count, os, ub) ==
    only({
      IF first.ret # nullptr
      THEN [d |-> first.d, ret |-> first.ret, t |-> 0, loop |-> FALSE]
      ELSE IF allocator.id \in {PartitionID, QuantumAllocatorID}
      THEN [d |-> first.d, ret |-> nullptr, t |-> allocator.t,
            loop |-> ~(orderDiv(d.quantumAllocators[allocator.t].partitionSize,
                                sizeToOrder(roundUpPowerOf2(size))) < count)]
      ELSE IF allocator.id = SlabAllocatorID
      THEN only({ [d |-> got.d, ret |-> got.ret, t |-> 0, loop |-> FALSE] :
                  got \in {SlabAllocator_allocateCount(
                               first.d, roundUpPowerOf2(size), count, os)} })
      ELSE [d |-> first.d, ret |-> nullptr, t |-> 0, loop |-> FALSE] :
      allocator \in {findAllocatorBySize(d, roundUpPowerOf2(size))},
      first \in {IF findAllocatorBySize(d, roundUpPowerOf2(size)).id = PartitionID
                 THEN Partition_allocateCount(d,
                          findAllocatorBySize(d, roundUpPowerOf2(size)).t,
                          findAllocatorBySize(d, roundUpPowerOf2(size)).p,
                          count, ub)
                 ELSE [d |-> d, ret |-> nullptr]} })

\* Director::deallocateCount on the quantum allocator t that holds address
Director_deallocateCountIn(d, t, address, count, ub) ==
    IF t # NOT_FOUND
    THEN QuantumAllocator_deallocateCount(d, t, address, count, ub)
    ELSE SlabAllocator_deallocateCount(d, address)

\* Director::deallocateCount
Director_deallocateCount(d, address, size, count, ub) ==
    Director_deallocateCountIn(d, quantumAllocatorOf(d, address), address, count, ub)


(***************************************************************************)
(* The state: the Director's objects, and the caller's view of it.         *)
(***************************************************************************)
(***************************************************************************)
(* Blocks in bulk: allocateBulk.  An address buffer is a sequence; the     *)
(* functions return the buffer they filled with the number of addresses    *)
(* they put in it.                                                         *)
(***************************************************************************)
\* the most addresses a call of qba_allocate_bulk is asked for: one more
\* than the quanta of the smallest size in a partition of the first quantum
\* allocator
MaxBulkCount == 5

\* the times a caller of qba_allocate_bulk may hold addresses of an earlier
\* call while it makes the next
MaxBulkCalls == 2

\* AllocateBulkIterator::iterate run alone, from the bit index on: the
\* compare-exchange that sets a whole word succeeds on the word it read, the
\* free bits of the snapshot are handed to foundFree from the lowest on
\* until the buffer holds count addresses, and the bits not handed out are
\* cleared again, so that the call sets one bit for every address it puts
\* into the buffer
RECURSIVE AllocateBulkIterator_iterateFrom(_, _, _, _, _, _)
AllocateBulkIterator_iterateFrom(registry, base, order, count, addresses, index) ==
    IF ~(getWordIndex(index) < registry.maximumWordIndex)
       \/ registry.maximumIndex <= index
       \/ ~(Len(addresses) < count)
    THEN [registry |-> registry, addresses |-> addresses]
    ELSE IF isSet(registry, index)
    THEN AllocateBulkIterator_iterateFrom(registry, base, order, count,
                                          addresses, index + 1)
    ELSE AllocateBulkIterator_iterateFrom(
             setMask(registry, getWordIndex(index), twoToOrder(getBitIndex(index))),
             base, order, count,
             Append(addresses, base + orderMul(index, order)), index + 1)

AllocateBulkIterator_iterate(registry, base, order, count) ==
    AllocateBulkIterator_iterateFrom(registry, base, order, count, <<>>,
                                     getIndex(registry.lowestIndex, 0))

\* Partition::allocateBulk(count, addresses) on partition partitionIndex of
\* tier t; addresses are the addresses it puts into the buffer handed to it
Partition_allocateBulk(d, t, partitionIndex, count) ==
    only({ [d |-> [d EXCEPT !.quantumAllocators[t].partitions[partitionIndex].registry
                                = got.registry],
            ret |-> Len(got.addresses), addresses |-> got.addresses] :
           got \in {AllocateBulkIterator_iterate(
                        d.quantumAllocators[t].partitions[partitionIndex].registry,
                        d.quantumAllocators[t].partitions[partitionIndex].base,
                        d.quantumAllocators[t].partitions[partitionIndex]
                            .quantumSizeOrder,
                        count)} })

\* Partition::allocateBulkContiguous on partition partitionIndex of tier t
Partition_allocateBulkContiguous(d, t, partitionIndex, count, ub) ==
    only({ [d |-> [d EXCEPT !.quantumAllocators[t].partitions[partitionIndex].registry
                                = found.reg],
            ret |-> IF found.ret = NOT_FOUND THEN 0 ELSE count,
            addresses |->
                IF found.ret = NOT_FOUND THEN <<>>
                ELSE [i \in 1 .. count |->
                         d.quantumAllocators[t].partitions[partitionIndex].base
                         + orderMul(found.ret + i - 1,
                               d.quantumAllocators[t].partitions[partitionIndex]
                                   .quantumSizeOrder)]] :
           found \in {findFreeRange(
                          d.quantumAllocators[t].partitions[partitionIndex].registry,
                          count, ub)} })

\* PartitionIterator::next with allocateNew set and continuous clear; index
\* is the position of the underlying RegistryIsSetIterator and allocateNew
\* the iterator's _allocateNew
PartitionIterator_nextOnce(d, t, orderIndex, index, allocateNew) ==
    only({ IF partitionIndex # NOT_FOUND
           THEN [d |-> d, ret |-> partitionIndex, index |-> partitionIndex + 1,
                 allocateNew |-> allocateNew]
           ELSE IF allocateNew
           THEN only({ [d |-> got.d, ret |-> got.ret,
                        index |-> d.quantumAllocators[t].orderRegistry[orderIndex]
                                      .maximumIndex,
                        allocateNew |-> FALSE] :
                       got \in {getFreePartition(d, t, orderIndex)} })
           ELSE [d |-> d, ret |-> NOT_FOUND,
                 index |-> d.quantumAllocators[t].orderRegistry[orderIndex]
                               .maximumIndex,
                 allocateNew |-> FALSE] :
           partitionIndex \in
               {nextSet(d.quantumAllocators[t].orderRegistry[orderIndex], index)} })

\* QuantumAllocator::allocateBulk, the while loop of either branch with the
\* iterator at index and the buffer holding addresses; a contiguous run is
\* written to the start of the buffer
RECURSIVE QuantumAllocator_allocateBulkFrom(_, _, _, _, _, _, _, _, _)
QuantumAllocator_allocateBulkFrom(d, t, size, count, contiguous, ub, index, allocateNew, addresses) ==
    IF ~(Len(addresses) < count) THEN [d |-> d, addresses |-> addresses]
    ELSE only({
           IF step.ret = NOT_FOUND THEN [d |-> step.d, addresses |-> addresses]
           ELSE only({ QuantumAllocator_allocateBulkFrom(
                           got.d, t, size, count, contiguous, ub, step.index,
                           step.allocateNew, addresses \o got.addresses) :
                       got \in {IF contiguous
                                THEN Partition_allocateBulkContiguous(
                                         step.d, t, step.ret, count, ub)
                                ELSE Partition_allocateBulk(
                                         step.d, t, step.ret,
                                         count - Len(addresses))} }) :
           step \in {PartitionIterator_nextOnce(d, t,
                         getOrderIndex(d.quantumAllocators[t], size),
                         index, allocateNew)} })

\* QuantumAllocator::allocateBulk
QuantumAllocator_allocateBulk(d, t, size, count, contiguous, ub) ==
    IF contiguous /\ ~(count <= orderDiv(d.quantumAllocators[t].partitionSize,
                                         sizeToOrder(size)))
    THEN [d |-> d, addresses |-> <<>>]
    ELSE QuantumAllocator_allocateBulkFrom(d, t, size, count, contiguous, ub,
                                           0, TRUE, <<>>)

\* Director::allocateBulk, the loop over _quantumAllocators: the first
\* quantum allocator whose largest size order is not below the order of
\* size, NOT_FOUND when the call goes on to the slab allocator
bulkAllocatorOf(d, size) ==
    IF \E t \in Tiers : sizeToOrder(size) <= d.quantumAllocators[t].largestSizeOrder
    THEN CHOOSE t \in Tiers :
             /\ sizeToOrder(size) <= d.quantumAllocators[t].largestSizeOrder
             /\ \A u \in Tiers :
                    sizeToOrder(size) <= d.quantumAllocators[u].largestSizeOrder
                        => t <= u
    ELSE NOT_FOUND

\* Director::allocateBulk of a size that a quantum allocator serves
Director_allocateBulk(d, size, count, contiguous, ub) ==
    QuantumAllocator_allocateBulk(d, bulkAllocatorOf(d, size), size, count,
                                  contiguous, ub)

(***************************************************************************)
(* allocateFit and deallocateFit: a request is served by a run of smaller  *)
(* quanta (FitSize, qba.cpp 4822-4902).                                    *)
(***************************************************************************)
MAX_FIT_DEGREE == 4

\* FitSize::FitSize from the clipped degree on: the size and the number of
\* the blocks to allocate
FitSize_scaled(size, order, lowOrder) ==
    only({ IF 1 < orderDiv(scaledSize, ctzRec(scaledSize))
           THEN [size  |-> orderToSize(lowOrder + ctzRec(scaledSize)),
                 count |-> orderDiv(scaledSize, ctzRec(scaledSize))]
           ELSE [size |-> orderToSize(order), count |-> 1] :
           scaledSize \in {(size + orderToSize(lowOrder) - 1) \div 2 ^ lowOrder} })

\* FitSize that clips the lowest order at zero
FitSize_clipsAtZero(size, degree) ==
    FitSize_scaled(size, sizeToOrder(size),
                   IF sizeToOrder(size) - degree < 0
                   THEN 0
                   ELSE sizeToOrder(size) - degree)

\* FitSize::FitSize for a size above zero
FitSize(size, degree) ==
    FitSize_scaled(size, sizeToOrder(size),
                   IF sizeToOrder(size) - degree < SMALLEST_SIZE_ORDER
                   THEN SMALLEST_SIZE_ORDER
                   ELSE sizeToOrder(size) - degree)

VARIABLES
    secure,             \* Director::_secure
    roster,             \* AllocatorRoster::allocators
    quantumAllocators,  \* Director::_quantumAllocators, with their partitions
    slabAllocator,      \* Director::_slabAllocator
    mapped,             \* address space units mapped for slabs
    reference,          \* Director::_reference
    nonzero,            \* the words of memory that are not zero
    live,               \* the allocations the callers hold
    last,               \* the latest call: arguments, result, bytes stored to
    call                \* the call in progress, when it runs a loop of its own

vars ==
    <<secure, roster, quantumAllocators, slabAllocator, mapped, reference, nonzero,
      live, last, call>>

\* the allocator state as the record the operators work on
D ==
    [ secure            |-> secure,
      roster            |-> roster,
      quantumAllocators |-> quantumAllocators,
      slabAllocator     |-> slabAllocator,
      mapped            |-> mapped,
      reference         |-> reference,
      wrote             |-> {},
      nonzero           |-> nonzero ]

\* the allocator state an operation leaves behind
Becomes(d) ==
    /\ secure' = d.secure
    /\ roster' = d.roster
    /\ quantumAllocators' = d.quantumAllocators
    /\ slabAllocator' = d.slabAllocator
    /\ mapped' = d.mapped
    /\ reference' = d.reference
    /\ nonzero' = d.nonzero

\* the sizes callers ask for: zero, one size that is not a power of two, the
\* power of two of every order of the first quantum allocator and of the
\* first order of the second, and of every order above LARGEST_SIZE_ORDER up
\* to MAX_ALLOCATION_ORDER
RequestSizes ==
    {0, orderToSize(SMALLEST_SIZE_ORDER) + 1}
    \cup { orderToSize(k) : k \in SMALLEST_SIZE_ORDER .. tierSmallestSizeOrder(1) }
    \cup { orderToSize(k) : k \in (LARGEST_SIZE_ORDER + 1) .. MAX_ALLOCATION_ORDER }

\* what the operating system may do for a request of this size: only a
\* request that reaches the slab allocator maps memory
OsChoicesFor(size) ==
    IF sizeToOrder(roundUpPowerOf2(size)) > LARGEST_SIZE_ORDER
    THEN OsChoices ELSE {-1}

\* the same with pages inside a unit as places
OsPagesFor(size) ==
    IF sizeToOrder(roundUpPowerOf2(size)) > LARGEST_SIZE_ORDER
    THEN OsPages ELSE {-1}

\* the same where the place of a slab plays no part: the operating system
\* maps a slab of the smallest size at the lowest address or refuses it, and
\* refuses every larger one
OsLowestFor(size) ==
    IF sizeToOrder(roundUpPowerOf2(size)) = LARGEST_SIZE_ORDER + 1
    THEN {-1, 0} ELSE {-1}

\* the secure flag handed to create
Secure == FALSE

Call(op, size, address, ret, wrote) ==
    [op |-> op, size |-> size, address |-> address, ret |-> ret, wrote |-> wrote]

\* an allocation a caller holds: the address it was given, the size it asked
\* for, the number of blocks and the call that made it; id tells apart two
\* allocations that were given the same address
CountAllocation(id, address, size, count, by) ==
    [id |-> id, address |-> address, size |-> size, count |-> count, by |-> by]

Allocation(id, address, size, by) == CountAllocation(id, address, size, 1, by)

\* no call in progress.  A call in progress holds its arguments (addresses,
\* size, count), the outcome ub of its undefined shifts and the locals of its
\* loop: deallocated of Director::deallocateBulk; the quantum allocator t, the
\* iterator's index, whether the loop goes on and the address to return of
\* QuantumAllocator::allocateCount.  turns counts the turns of the loop.
\* The calls of qba_set_reference are made by the threads Threads, each at
\* most one at a time: a call is entered (called), its compare-exchange
\* takes effect (done, with the result ret), and it returns.  raced tells
\* that a call was entered while the call of another thread, with the same
\* expected value, was entered and had not taken effect, the reference
\* holding that value and both new values differing from it.
Threads == {"t1", "t2"}

ThreadIdle == [pc |-> "idle", oldValue |-> nullptr, newValue |-> nullptr, ret |-> FALSE]

Idle ==
    [ op |-> "none", addresses |-> <<>>, deallocated |-> 0, turns |-> 0,
      size |-> 0, count |-> 0, ub |-> "mod", t |-> 0, index |-> 0,
      loop |-> FALSE, ret |-> nullptr,
      threads |-> [th \in Threads |-> ThreadIdle], raced |-> FALSE ]

\* the lowest id no allocation held uses
FreeId ==
    CHOOSE i \in 1 .. MaxLive :
        /\ \A a \in live : a.id # i
        /\ \A j \in 1 .. (i - 1) : \E a \in live : a.id = j

Init ==
    /\ secure = Secure
    /\ roster = createDirector(secure).roster
    /\ quantumAllocators = createDirector(secure).quantumAllocators
    /\ slabAllocator = createDirector(secure).slabAllocator
    /\ mapped = createDirector(secure).mapped
    /\ reference = createDirector(secure).reference
    /\ nonzero = createDirector(secure).nonzero
    /\ live = {}
    /\ last = Call("create", 0, nullptr, nullptr, {})
    /\ call = Idle

\* qba_allocate.  Callers hold at most MaxLive allocations: a call made with
\* that many held is followed only when it returns nullptr.
Allocate(size, os) ==
    /\ call = Idle
    /\ UNCHANGED call
    /\ \E got \in {Director_allocate(D, size, os)} :
           /\ Cardinality(live) < MaxLive \/ got.ret = nullptr
           /\ Becomes(got.d)
           /\ live' = IF got.ret = nullptr THEN live
                      ELSE live \cup {Allocation(FreeId, got.ret, size, "allocate")}
           /\ last' = Call("allocate", size, nullptr, got.ret, got.d.wrote)

\* qba_allocate of a size above MAX_ALLOCATION_SIZE.  Director::allocate
\* uses size only to compute alignedSize, and roundUpPowerOf2 maps zero and
\* every power of two to itself, so the call does with size what it does with
\* a request of alignedSize bytes.
AllocateOutOfRange(size, ub) ==
    /\ call = Idle
    /\ UNCHANGED call
    /\ MAX_ALLOCATION_SIZE < size
    /\ \E got \in {Director_allocate(D, roundUpPowerOf2Any(size, ub), -1)} :
           /\ Cardinality(live) < MaxLive \/ got.ret = nullptr
           /\ Becomes(got.d)
           /\ live' = IF got.ret = nullptr THEN live
                      ELSE live \cup {Allocation(FreeId, got.ret, size, "allocate")}
           /\ last' = Call("allocate", size, nullptr, got.ret, got.d.wrote)

\* qba_deallocate of an allocation made by qba_allocate or qba_reallocate
Deallocate(a) ==
    /\ call = Idle
    /\ UNCHANGED call
    /\ a.by = "allocate"
    /\ \E d \in {Director_deallocate(D, a.address)} :
           /\ Becomes(d)
           /\ live' = live \ {a}
           /\ last' = Call("deallocate", 0, a.address, nullptr, d.wrote)

\* qba_reallocate of an allocation made by qba_allocate or qba_reallocate
Reallocate(a, size, os) ==
    /\ call = Idle
    /\ UNCHANGED call
    /\ a.by = "allocate"
    /\ \E got \in {Director_reallocate(D, a.address, size, os)} :
           /\ Becomes(got.d)
           /\ live' = IF got.ret = nullptr THEN live
                      ELSE (live \ {a})
                           \cup {Allocation(a.id, got.ret, size, "allocate")}
           /\ last' = Call("reallocate", size, a.address, got.ret, got.d.wrote)

\* qba_reallocate of nullptr
ReallocateNull(size, os) ==
    /\ call = Idle
    /\ UNCHANGED call
    /\ Cardinality(live) < MaxLive
    /\ \E got \in {Director_reallocate(D, nullptr, size, os)} :
           /\ Becomes(got.d)
           /\ live' = IF got.ret = nullptr THEN live
                      ELSE live \cup {Allocation(FreeId, got.ret, size, "allocate")}
           /\ last' = Call("reallocate", size, nullptr, got.ret, got.d.wrote)

\* the caller holds a block that address lies in
held(address) ==
    \E a \in live :
        a.address <= address /\ address < a.address + Director_allocationSize(D, a.address)

\* qba_deallocate of an address outside the quantum allocators that lies in
\* no block the caller holds
DeallocateUnknown(address) ==
    /\ call = Idle
    /\ UNCHANGED call
    /\ quantumAllocatorOf(D, address) = NOT_FOUND
    /\ ~held(address)
    /\ \E d \in {Director_deallocate(D, address)} :
           /\ Becomes(d)
           /\ last' = Call("deallocate", 0, address, nullptr, d.wrote)
    /\ UNCHANGED live

\* qba_size
Size(address) ==
    /\ call = Idle
    /\ last' = Call("size", 0, address, Director_allocationSize(D, address), {})
    /\ UNCHANGED <<secure, roster, quantumAllocators, slabAllocator, mapped,
                   reference, nonzero, live, call>>

\* qba_base
Base(address) ==
    /\ call = Idle
    /\ last' = Call("base", 0, address, Director_allocationBase(D, address), {})
    /\ UNCHANGED <<secure, roster, quantumAllocators, slabAllocator, mapped,
                   reference, nonzero, live, call>>

\* qba_side_data
SideData(address) ==
    /\ call = Idle
    /\ last' = Call("side_data", 0, address,
                    Director_allocationSideData(D, address), {})
    /\ UNCHANGED <<secure, roster, quantumAllocators, slabAllocator, mapped,
                   reference, nonzero, live, call>>

\* Director::setReference: _reference.compare_exchange_weak(oldValue,
\* newValue).  The weak form may fail although the word holds oldValue
\* (spurious).
Director_setReference(d, oldValue, newValue, spurious) ==
    IF d.reference = oldValue /\ ~spurious
    THEN [d |-> [d EXCEPT !.reference = newValue], ret |-> TRUE]
    ELSE [d |-> d, ret |-> FALSE]

\* qba_set_reference is entered by thread th
SetReferenceCall(th, oldValue, newValue) ==
    /\ call.op = "none"
    /\ call.threads[th].pc = "idle"
    /\ call' = [call EXCEPT
                  !.threads[th] = [pc |-> "called", oldValue |-> oldValue,
                                   newValue |-> newValue, ret |-> FALSE],
                  !.raced = @ \/ \E other \in Threads \ {th} :
                                    /\ call.threads[other].pc = "called"
                                    /\ call.threads[other].oldValue = oldValue
                                    /\ reference = oldValue
                                    /\ newValue # oldValue
                                    /\ call.threads[other].newValue # oldValue]
    /\ UNCHANGED <<secure, roster, quantumAllocators, slabAllocator, mapped,
                   reference, nonzero, live, last>>

\* the compare-exchange of the call of thread th takes effect
SetReferenceStep(th, spurious) ==
    /\ call.threads[th].pc = "called"
    /\ \E got \in {Director_setReference(D, call.threads[th].oldValue,
                                          call.threads[th].newValue, spurious)} :
           /\ Becomes(got.d)
           /\ call' = [call EXCEPT !.threads[th].pc = "done",
                                   !.threads[th].ret = got.ret]
    /\ UNCHANGED <<live, last>>

\* qba_set_reference returns to thread th
SetReferenceReturn(th) ==
    /\ call.threads[th].pc = "done"
    /\ call' = [call EXCEPT !.threads[th] = ThreadIdle, !.raced = FALSE]
    /\ UNCHANGED <<secure, roster, quantumAllocators, slabAllocator, mapped,
                   reference, nonzero, live, last>>

\* the address buffers a caller may hand to qba_deallocate_bulk: the
\* addresses of some of its allocations, in any order
AddressBuffers ==
    UNION { { [i \in 1 .. n |-> f[i].address] :
                f \in { g \in [1 .. n -> live] :
                           \A i \in 1 .. n : \A j \in 1 .. n : g[i] = g[j] => i = j } } :
            n \in 1 .. Cardinality(live) }

\* qba_deallocate_bulk is entered
DeallocateBulkCall(addresses) ==
    /\ call = Idle
    /\ call' = [Idle EXCEPT !.op = "deallocateBulk", !.addresses = addresses]
    /\ UNCHANGED <<secure, roster, quantumAllocators, slabAllocator, mapped,
                   reference, nonzero, live, last>>

\* Director::deallocateBulk: one turn of the while loop
DeallocateBulkTurn ==
    /\ call.op = "deallocateBulk"
    /\ call.deallocated < Len(call.addresses)
    /\ call.turns < MaxTurns
    /\ \E got \in {Director_deallocateBulkTurn(D, call.addresses, call.deallocated)} :
           /\ Becomes(got.d)
           /\ call' = [call EXCEPT !.deallocated = got.ret, !.turns = @ + 1]
    /\ UNCHANGED <<live, last>>

\* Director::deallocateBulk: the while loop ends and the call returns; the
\* caller gives up the addresses of the buffer
DeallocateBulkReturn ==
    /\ call.op = "deallocateBulk"
    /\ ~(call.deallocated < Len(call.addresses))
    /\ call' = Idle
    /\ live' = { a \in live :
                   \A i \in 1 .. Len(call.addresses) : a.address # call.addresses[i] }
    /\ last' = Call("deallocateBulk", 0, nullptr, nullptr, {})
    /\ UNCHANGED <<secure, roster, quantumAllocators, slabAllocator, mapped, reference,
                   nonzero>>

\* qba_allocate_count is entered: Director::allocateCount runs up to the loop
\* of QuantumAllocator::allocateCount, or to its end when it does not reach
\* that loop
AllocateCountCall(size, count, os, ub) ==
    /\ call = Idle
    /\ Cardinality(live) < MaxLive
    /\ \E got \in {Director_allocateCountEnter(D, size, count, os, ub)} :
           /\ Becomes(got.d)
           /\ call' = [Idle EXCEPT !.op = "allocateCount", !.size = size,
                                   !.count = count, !.ub = ub, !.t = got.t,
                                   !.loop = got.loop, !.ret = got.ret]
    /\ UNCHANGED <<live, last>>

\* QuantumAllocator::allocateCount: one turn of the for loop
AllocateCountTurn ==
    /\ call.op = "allocateCount"
    /\ call.loop
    /\ call.turns < MaxTurns
    /\ \E got \in {QuantumAllocator_allocateCountTurn(
                        D, call.t, roundUpPowerOf2(call.size), call.count,
                        call.index, call.ub)} :
           /\ Becomes(got.d)
           /\ call' = [call EXCEPT !.index = got.index, !.loop = got.loop,
                                   !.ret = got.ret, !.turns = @ + 1]
    /\ UNCHANGED <<live, last>>

\* qba_allocate_count returns
AllocateCountReturn ==
    /\ call.op = "allocateCount"
    /\ ~call.loop
    /\ call' = Idle
    /\ live' = IF call.ret = nullptr THEN live
               ELSE live \cup {CountAllocation(FreeId, call.ret, call.size,
                                               call.count, "allocateCount")}
    /\ last' = Call("allocateCount", call.size, nullptr, call.ret, {})
    /\ UNCHANGED <<secure, roster, quantumAllocators, slabAllocator, mapped, reference,
                   nonzero>>

\* the byte ranges [a, a + m) and [b, b + n) share a byte
overlap(a, m, b, n) == a < b + n /\ b < a + m

\* the ids of the allocations a call of qba_allocate_bulk hands out: those
\* of the lowest range of MaxBulkCount ids above MaxLive that no allocation
\* held uses
BulkIds(g) == { MaxLive + g * MaxBulkCount + i : i \in 1 .. MaxBulkCount }

FreeBulkIds ==
    BulkIds(CHOOSE g \in 0 .. (MaxBulkCalls - 1) :
                /\ \A a \in live : a.id \notin BulkIds(g)
                /\ \A h \in 0 .. (g - 1) : \E a \in live : a.id \in BulkIds(h))

\* what a call of qba_allocate_bulk leaves in last: its arguments, the
\* number it returned, the buffer it filled, and taken, the positions of the
\* buffer whose quantum lies in an allocation the caller held when the call
\* began
BulkCall(size, count, contiguous, addresses, taken) ==
    [op |-> "allocateBulk", size |-> size, address |-> nullptr,
     ret |-> Len(addresses), wrote |-> {}, count |-> count,
     contiguous |-> contiguous, addresses |-> addresses, taken |-> taken]

\* qba_allocate_bulk of a size that a quantum allocator serves.  Every
\* address of the buffer becomes an allocation of the caller, released by
\* qba_deallocate.
AllocateBulk(size, count, contiguous, ub) ==
    /\ call = Idle
    /\ UNCHANGED call
    /\ bulkAllocatorOf(D, size) # NOT_FOUND
    /\ \E g \in 0 .. (MaxBulkCalls - 1) : \A a \in live : a.id \notin BulkIds(g)
    /\ \E got \in {Director_allocateBulk(D, size, count, contiguous, ub)} :
           /\ Becomes(got.d)
           /\ live' = live \cup
                  { Allocation(MaxLive + (CHOOSE g \in 0 .. (MaxBulkCalls - 1) :
                                             BulkIds(g) = FreeBulkIds) * MaxBulkCount + i,
                               got.addresses[i], size, "allocate") :
                    i \in 1 .. Len(got.addresses) }
           /\ last' = BulkCall(size, count, contiguous, got.addresses,
                               { i \in 1 .. Len(got.addresses) :
                                   \E a \in live :
                                       overlap(got.addresses[i],
                                               orderToSize(sizeToOrder(size)),
                                               a.address,
                                               orderToSize(sizeToOrder(a.size))) })

\* qba_deallocate_count of an allocation made by qba_allocate_count, with
\* the size and count it was made with
DeallocateCount(a, ub) ==
    /\ call = Idle
    /\ UNCHANGED call
    /\ a.by = "allocateCount"
    /\ \E d \in {Director_deallocateCount(D, a.address, a.size, a.count, ub)} :
           /\ Becomes(d)
           /\ live' = live \ {a}
           /\ last' = Call("deallocateCount", a.size, a.address, nullptr, d.wrote)

\* qba_allocate_fit is entered: Director::allocateFit calls allocateCount
\* with the size and the count of FitSize
AllocateFitCall(size, degree, os, ub) ==
    AllocateCountCall(FitSize(size, degree).size, FitSize(size, degree).count,
                      os, ub)

\* qba_deallocate_fit of an allocation made by qba_allocate_fit, with a size
\* and a degree that give the size and the count it was made with
DeallocateFit(a, size, degree, ub) ==
    /\ FitSize(size, degree).size = a.size
    /\ FitSize(size, degree).count = a.count
    /\ DeallocateCount(a, ub)

\* The calls below are those of an allocator created in secure mode, made by
\* several threads.  A call of qba_deallocate or qba_deallocate_count of a
\* quantum block takes effect in two steps, the store of zeroes and the
\* update of the registry, and steps of the calls of other threads come
\* between them; meanwhile the allocation is held with by = "deallocate" or
\* "deallocateCount".
InitSecure ==
    /\ secure = TRUE
    /\ roster = createDirector(TRUE).roster
    /\ quantumAllocators = createDirector(TRUE).quantumAllocators
    /\ slabAllocator = createDirector(TRUE).slabAllocator
    /\ mapped = createDirector(TRUE).mapped
    /\ reference = createDirector(TRUE).reference
    /\ nonzero = createDirector(TRUE).nonzero
    /\ live = {}
    /\ last = Call("create", 0, nullptr, nullptr, {})
    /\ call = Idle

\* the bytes the caller asked for with allocation a, in whole words
requested(a) ==
    wordsOf(a.address, roundUp(a.size, BYTES_PER_WORD) * a.count)

\* the address of allocation a is in the buffer of the call of
\* qba_deallocate_bulk in progress
inBuffer(a) ==
    /\ call.op = "deallocateBulk"
    /\ \E i \in 1 .. Len(call.addresses) : call.addresses[i] = a.address

\* a thread stores values other than zero to the bytes it asked for
Store(a) ==
    /\ a.by \in {"allocate", "allocateCount"}
    /\ ~inBuffer(a)
    /\ nonzero' = nonzero \cup requested(a)
    /\ last' = Call("store", a.size, a.address, nullptr, {})
    /\ UNCHANGED <<secure, roster, quantumAllocators, slabAllocator, mapped,
                   reference, live, call>>

\* Director::deallocate of a quantum block in secure mode: allocator->clear
DeallocateEnter(a) ==
    /\ secure
    /\ a.by = "allocate"
    /\ ~inBuffer(a)
    /\ quantumAllocatorOf(D, a.address) # NOT_FOUND
    /\ \E d \in {QuantumAllocator_clear(D, quantumAllocatorOf(D, a.address),
                                        a.address)} :
           /\ Becomes(d)
           /\ last' = Call("clear", 0, a.address, nullptr, d.wrote)
    /\ live' = (live \ {a}) \cup {[a EXCEPT !.by = "deallocate"]}
    /\ UNCHANGED call

\* Director::deallocate of a quantum block in secure mode:
\* allocator->deallocate, and the call returns
DeallocateLeave(a) ==
    /\ a.by = "deallocate"
    /\ \E d \in {QuantumAllocator_deallocate(D, quantumAllocatorOf(D, a.address),
                                             a.address)} :
           /\ Becomes(d)
           /\ last' = Call("deallocate", 0, a.address, nullptr, d.wrote)
    /\ live' = live \ {a}
    /\ UNCHANGED call

\* qba_deallocate_count of a run of quantum blocks in secure mode, up to the
\* call of Registry::freeRange
DeallocateCountEnter(a) ==
    /\ secure
    /\ a.by = "allocateCount"
    /\ quantumAllocatorOf(D, a.address) # NOT_FOUND
    /\ \E d \in {Partition_deallocateCountClear(
                     D, quantumAllocatorOf(D, a.address),
                     getPartitionIndex(
                         quantumAllocators[quantumAllocatorOf(D, a.address)],
                         a.address),
                     a.address, a.count)} :
           /\ Becomes(d)
           /\ last' = Call("clear", a.size, a.address, nullptr, d.wrote)
    /\ live' = (live \ {a}) \cup {[a EXCEPT !.by = "deallocateCount"]}
    /\ UNCHANGED call

\* qba_deallocate_count of a run of quantum blocks in secure mode, from the
\* call of Registry::freeRange on
DeallocateCountLeave(a, ub) ==
    /\ a.by = "deallocateCount"
    /\ \E d \in {Partition_deallocateCountFree(
                     D, quantumAllocatorOf(D, a.address),
                     getPartitionIndex(
                         quantumAllocators[quantumAllocatorOf(D, a.address)],
                         a.address),
                     a.address, a.count, ub)} :
           /\ Becomes(d)
           /\ last' = Call("deallocateCount", a.size, a.address, nullptr, d.wrote)
    /\ live' = live \ {a}
    /\ UNCHANGED call

\* A walk over the allocations: qba_next(qba, nullptr) starts it, and each
\* further call of qba_next is handed the result of the one before, until a
\* call returns nullptr.  The walk in progress holds in addresses the
\* results so far, loop telling that the latest was not nullptr.  No other
\* call is made while the walk goes on.
WalkStart ==
    /\ call = Idle
    /\ \E next \in {Director_nextAllocation(D, nullptr)} :
           call' = [Idle EXCEPT !.op = "walk",
                                !.addresses = IF next = nullptr THEN <<>> ELSE <<next>>,
                                !.loop = (next # nullptr),
                                !.turns = 1]
    /\ UNCHANGED <<secure, roster, quantumAllocators, slabAllocator, mapped,
                   reference, nonzero, live, last>>

\* the next call of qba_next of the walk
WalkStep ==
    /\ call.op = "walk"
    /\ call.loop
    /\ call.turns < MaxTurns
    /\ \E next \in {Director_nextAllocation(
                         D, call.addresses[Len(call.addresses)])} :
           call' = [call EXCEPT !.addresses = IF next = nullptr THEN @
                                              ELSE Append(@, next),
                                !.loop = (next # nullptr),
                                !.turns = @ + 1]
    /\ UNCHANGED <<secure, roster, quantumAllocators, slabAllocator, mapped,
                   reference, nonzero, live, last>>

\* the walk is over, or given up
WalkEnd ==
    /\ call.op = "walk"
    /\ call' = Idle
    /\ last' = Call("next", 0, nullptr, nullptr, {})
    /\ UNCHANGED <<secure, roster, quantumAllocators, slabAllocator, mapped,
                   reference, nonzero, live>>

\* qba_stats; the arrays it fills are kept with the call
Stats ==
    /\ call = Idle
    /\ \E st \in {Director_stats(D)} :
           last' = [ op |-> "stats", size |-> 0, address |-> nullptr,
                     ret |-> nullptr, wrote |-> {},
                     counts |-> st.counts, sizes |-> st.sizes ]
    /\ UNCHANGED <<secure, roster, quantumAllocators, slabAllocator, mapped,
                   reference, nonzero, live, call>>

\* the sizes blocks are resized to: zero, a size that is not a power of two,
\* the largest size of the first quantum allocator and the smallest slab size
NewSizes ==
    { 0, orderToSize(SMALLEST_SIZE_ORDER) + 1,
      orderToSize(tierSmallestSizeOrder(1) - 1),
      orderToSize(LARGEST_SIZE_ORDER + 1) }

Next ==
    \/ \E size \in RequestSizes : \E os \in OsLowestFor(size) : Allocate(size, os)
    \/ \E a \in live : Deallocate(a)
    \/ \E a \in live : \E size \in NewSizes : \E os \in OsLowestFor(size) :
          Reallocate(a, size, os)
    \/ \E size \in NewSizes : \E os \in OsLowestFor(size) :
          ReallocateNull(size, os)

Spec == Init /\ [][Next]_vars


\* the calls qba_allocate and qba_deallocate alone
NextAllocate ==
    \/ \E size \in RequestSizes : \E os \in OsLowestFor(size) : Allocate(size, os)
    \/ \E a \in live : Deallocate(a)

SpecAllocate == Init /\ [][NextAllocate]_vars

\* the sizes asked for above MAX_ALLOCATION_SIZE: the smallest, the last one
\* that roundUpPowerOf2 can round, the first it cannot, and the largest of
\* the width
OutOfRangeSizes ==
    { MAX_ALLOCATION_SIZE + 1, SIZE_MOD \div 2, SIZE_MOD \div 2 + 1,
      SIZE_MOD \div 2 + 2, SIZE_MOD - 1 }

\* the calls qba_allocate, with sizes in and out of range, and qba_deallocate
NextOutOfRange ==
    \/ \E size \in RequestSizes : \E os \in OsLowestFor(size) : Allocate(size, os)
    \/ \E a \in live : Deallocate(a)
    \/ \E size \in OutOfRangeSizes : \E ub \in UBOutcomes :
          AllocateOutOfRange(size, ub)

SpecOutOfRange == Init /\ [][NextOutOfRange]_vars

\* addresses outside the quantum allocators: the null pointer, the byte below
\* the arena, the first byte of the internal structures, and bytes of the
\* address space slabs are mapped in: of each unit the first and the last
\* byte, and the byte above the last unit
OutsideAddresses ==
    { nullptr, ArenaBase - 1, bases(0) + sizes(0), unitAddress(OsUnits) }
    \cup { unitAddress(u) : u \in 0 .. (OsUnits - 1) }
    \cup { unitAddress(u) + SLAB_ALIGNMENT - 1 : u \in 0 .. (OsUnits - 1) }

\* the sizes asked for where addresses are looked up: the smallest size, the
\* smallest slab size and the next one
LookupSizes ==
    { orderToSize(SMALLEST_SIZE_ORDER), orderToSize(LARGEST_SIZE_ORDER + 1),
      orderToSize(LARGEST_SIZE_ORDER + 2) }

\* the calls qba_allocate and qba_deallocate, and qba_deallocate, qba_size,
\* qba_base and qba_side_data of addresses outside the quantum allocators
NextOutside ==
    \/ \E size \in LookupSizes : \E os \in OsChoicesFor(size) : Allocate(size, os)
    \/ \E a \in live : Deallocate(a)
    \/ \E address \in OutsideAddresses : DeallocateUnknown(address)
    \/ \E address \in OutsideAddresses : Size(address)
    \/ \E address \in OutsideAddresses : Base(address)
    \/ \E address \in OutsideAddresses : SideData(address)

SpecOutside == Init /\ [][NextOutside]_vars

\* the values of the user reference: the null pointer and two others
ReferenceValues == {nullptr, ArenaBase, ArenaBase + BYTES_PER_WORD}

\* the calls qba_set_reference of the threads
NextReference ==
    \/ \E th \in Threads : \E oldValue \in ReferenceValues :
          \E newValue \in ReferenceValues : SetReferenceCall(th, oldValue, newValue)
    \/ \E th \in Threads : \E spurious \in BOOLEAN : SetReferenceStep(th, spurious)
    \/ \E th \in Threads : SetReferenceReturn(th)

SpecReference == Init /\ [][NextReference]_vars

\* the sizes asked for where buffers of addresses are released: the largest
\* size of the first quantum allocator, the smallest of the second, and the
\* smallest slab size
BulkSizes ==
    { orderToSize(tierSmallestSizeOrder(1) - 1),
      orderToSize(tierSmallestSizeOrder(1)),
      orderToSize(LARGEST_SIZE_ORDER + 1) }

\* the calls qba_allocate, qba_deallocate and qba_deallocate_bulk
NextBulk ==
    \/ \E size \in BulkSizes : \E os \in OsLowestFor(size) : Allocate(size, os)
    \/ \E a \in live : Deallocate(a)
    \/ \E addresses \in AddressBuffers : DeallocateBulkCall(addresses)
    \/ DeallocateBulkTurn
    \/ DeallocateBulkReturn

SpecBulk == Init /\ [][NextBulk]_vars

\* the sizes asked for where runs of blocks are allocated: the sizes of the
\* first quantum allocator and the smallest slab size
CountSizes ==
    { orderToSize(k) : k \in SMALLEST_SIZE_ORDER .. (tierSmallestSizeOrder(1) - 1) }
    \cup { orderToSize(LARGEST_SIZE_ORDER + 1) }

\* the counts asked for: up to the number of quanta of the smallest size that
\* a partition of the first quantum allocator holds
Counts == 1 .. orderDiv(tierPartitionSize(0), SMALLEST_SIZE_ORDER)

\* the calls qba_allocate, qba_deallocate, qba_allocate_count and
\* qba_deallocate_count
NextCount ==
    \/ \E size \in CountSizes : \E os \in OsLowestFor(size) : Allocate(size, os)
    \/ \E a \in live : Deallocate(a)
    \/ \E size \in CountSizes : \E count \in Counts :
          \E os \in OsLowestFor(size * count) : \E ub \in UBOutcomes :
             AllocateCountCall(size, count, os, ub)
    \/ AllocateCountTurn
    \/ AllocateCountReturn
    \/ \E a \in live : \E ub \in UBOutcomes : DeallocateCount(a, ub)

SpecCount == Init /\ [][NextCount]_vars

\* the sizes asked for where the allocations are walked: the smallest sizes
\* of the first and of the second quantum allocator, the smallest slab size
\* and the next one
WalkSizes ==
    { orderToSize(SMALLEST_SIZE_ORDER), orderToSize(tierSmallestSizeOrder(1)),
      orderToSize(LARGEST_SIZE_ORDER + 1), orderToSize(LARGEST_SIZE_ORDER + 2) }

\* the calls qba_allocate, qba_deallocate and qba_next
NextWalk ==
    \/ \E size \in WalkSizes : \E os \in OsLowestFor(size) : Allocate(size, os)
    \/ \E a \in live : Deallocate(a)
    \/ WalkStart
    \/ WalkStep
    \/ WalkEnd

SpecWalk == Init /\ [][NextWalk]_vars

\* the sizes asked for where stats is called: the smallest size, one above
\* it, the largest quantum size, and the two smallest slab sizes
StatsSizes ==
    { orderToSize(SMALLEST_SIZE_ORDER), orderToSize(SMALLEST_SIZE_ORDER) + 1,
      orderToSize(LARGEST_SIZE_ORDER), orderToSize(LARGEST_SIZE_ORDER + 1),
      orderToSize(LARGEST_SIZE_ORDER + 2) }

\* the calls qba_allocate, qba_deallocate and qba_stats
NextStats ==
    \/ \E size \in StatsSizes : \E os \in OsChoicesFor(size) : Allocate(size, os)
    \/ \E a \in live : Deallocate(a)
    \/ Stats

SpecStats == Init /\ [][NextStats]_vars

\* the size asked for in secure mode: the smallest
SecureSizes == { orderToSize(SMALLEST_SIZE_ORDER) }

\* the counts asked for in secure mode
SecureCounts == 1 .. (MAX_PARTITION_QUANTUM - 1)

\* the buffers handed to qba_deallocate_bulk in secure mode: the address of
\* one block made by qba_allocate, or of two
SecureBuffers ==
    { <<a.address>> : a \in { b \in live : b.by = "allocate" } }
    \cup UNION { { <<a.address, b.address>> :
                     b \in { c \in live : c.by = "allocate" /\ c.address # a.address } } :
                   a \in { c \in live : c.by = "allocate" } }

\* the calls of the threads in secure mode
NextSecure ==
    \/ \E size \in SecureSizes : Allocate(size, -1)
    \/ \E a \in live : Store(a)
    \/ \E a \in live : DeallocateEnter(a)
    \/ \E a \in live : DeallocateLeave(a)
    \/ \E size \in SecureSizes : \E count \in SecureCounts : \E ub \in UBOutcomes :
          AllocateCountCall(size, count, -1, ub)
    \/ AllocateCountTurn
    \/ AllocateCountReturn
    \/ \E a \in live : DeallocateCountEnter(a)
    \/ \E a \in live : \E ub \in UBOutcomes : DeallocateCountLeave(a, ub)
    \/ \E addresses \in SecureBuffers : DeallocateBulkCall(addresses)
    \/ DeallocateBulkTurn
    \/ DeallocateBulkReturn

SpecSecure == InitSecure /\ [][NextSecure]_vars


(***************************************************************************)
(* Properties.                                                             *)
(***************************************************************************)
\* every partition slot of tier t is claimed
slotsUsedUp(t) ==
    countBits(quantumAllocators[t].partitionRegistry)
        = quantumAllocators[t].partitionCount

\* the tier whose orders include order, NOT_FOUND if none
tierOfOrder(order) ==
    IF \E t \in Tiers : /\ quantumAllocators[t].smallestSizeOrder <= order
                        /\ order <= quantumAllocators[t].largestSizeOrder
    THEN CHOOSE t \in Tiers : /\ quantumAllocators[t].smallestSizeOrder <= order
                              /\ order <= quantumAllocators[t].largestSizeOrder
    ELSE NOT_FOUND

\* C1: every address a that allocate(s) returned for s >= 1 and that is still
\* held satisfies size(a) >= s, and size(a) is a power of two between 8 and
\* MAX_ALLOCATION_SIZE.
C1_SizeCoversRequest ==
    \A a \in live :
        (a.by = "allocate" /\ a.size >= 1) =>
            LET size == Director_allocationSize(D, a.address)
            IN  /\ size >= a.size
                /\ isPowerOf2(size)
                /\ orderToSize(SMALLEST_SIZE_ORDER) <= size
                /\ size <= MAX_ALLOCATION_SIZE

\* The byte range [a, a + size(a)) of an allocation, size(a) as qba_size reports it.
rangeOf(a) ==
    LET size == Director_allocationSize(D, a.address)
    IN  { x \in a.address..(a.address + size - 1) : TRUE }

\* C2: the ranges [a, a+size(a)) of two allocations that are live at the same
\* time never overlap; in particular no address is handed to two callers
\* without a deallocate of it in between.
C2_NoOverlap ==
    \A a \in live : \A b \in live :
        a.id # b.id => rangeOf(a) \cap rangeOf(b) = {}

\* The bytes of a range <<address, size, how>> written by System::commit/clear/copy.
bytesOf(w) == { x \in w[1]..(w[1] + w[2] - 1) : TRUE }

\* C3: allocate and deallocate (secure mode off) never write to the bytes of
\* an allocated block: no range written during the call meets a block that is
\* live before the call and still live after it.
C3_NoWriteToAllocated ==
    [][ last'.op \in {"allocate", "deallocate"} =>
            \A a \in live \cap live' : \A w \in last'.wrote :
                rangeOf(a) \cap bytesOf(w) = {} ]_vars

\* The bytes of the block that qba_size reports at an address in state d.
blockAt(d, address) ==
    { x \in address..(address + Director_allocationSize(d, address) - 1) : TRUE }

\* C4: reallocate(a, n) of a live block a that moves to a block of a smaller
\* order (n = 0 included) copies only into the block it returns, and none of
\* its writes meets another live allocation.
C4_ShrinkWritesInsideBlock ==
    [][ ( /\ last'.op = "reallocate"
          /\ last'.address # nullptr
          /\ last'.ret # nullptr
          /\ last'.ret # last'.address
          /\ sizeToOrder(last'.size) <
                 sizeToOrder(Director_allocationSize(D, last'.address)) ) =>
            \A w \in last'.wrote :
                /\ w[3] = "copy" => bytesOf(w) \subseteq blockAt(D', last'.ret)
                /\ \A b \in live \cap live' : rangeOf(b) \cap bytesOf(w) = {} ]_vars

\* The allocator's objects in state d, without the record of the bytes written.
stateOf(d) == <<d.secure, d.roster, d.quantumAllocators, d.slabAllocator, d.mapped>>

\* C5: reallocate(nullptr, s) has the effect and the result of allocate(s);
\* and reallocate(a, n) of a live block a with size(a)/2 < n <= size(a)
\* returns a, writes nothing and changes no allocator state.
C5_ReallocateNullAndInPlace ==
    [][ last'.op = "reallocate" =>
          IF last'.address = nullptr
          THEN \E os \in OsChoicesFor(last'.size) :
                   \E got \in {Director_allocate(D, last'.size, os)} :
                       /\ last'.ret = got.ret
                       /\ last'.wrote = got.d.wrote
                       /\ stateOf(D') = stateOf(got.d)
          ELSE \E size \in {Director_allocationSize(D, last'.address)} :
                   (size \div 2 < last'.size /\ last'.size <= size) =>
                       /\ last'.ret = last'.address
                       /\ last'.wrote = {}
                       /\ stateOf(D') = stateOf(D) ]_vars

\* a reallocate of a live block to a smaller size that still needs the block's
\* order has returned the block itself
C5_InPlaceHappened ==
    /\ last.op = "reallocate"
    /\ last.address # nullptr
    /\ last.ret = last.address
    /\ \E size \in {Director_allocationSize(D, last.address)} :
           size \div 2 < last.size /\ last.size < size

\* no partition that serves order index orderIndex of tier t has a free
\* quantum, and no partition slot of the tier is free
exhaustedQuantum(t, orderIndex) ==
    /\ slotsUsedUp(t)
    /\ \A p \in 0 .. (quantumAllocators[t].partitionCount - 1) :
           isSet(quantumAllocators[t].orderRegistry[orderIndex], p) =>
               countBits(quantumAllocators[t].partitions[p].registry)
                   = quantumAllocators[t].partitions[p].registry.maximumIndex

\* no slab slot is free
exhaustedSlabs ==
    countBits(slabAllocator.registry) = slabAllocator.maxCount

\* capacity for a request of this order is used up
exhaustedOrder(order) ==
    IF tierOfOrder(order) # NOT_FOUND
    THEN exhaustedQuantum(tierOfOrder(order),
             order - quantumAllocators[tierOfOrder(order)].smallestSizeOrder)
    ELSE roster[order] = SlabAllocatorRef /\ exhaustedSlabs

\* the roster and the bits of every registry
allocatorBits ==
    << roster,
       [ t \in Tiers |->
           << quantumAllocators[t].partitionRegistry.bits,
              [ i \in OrderIndexes |-> quantumAllocators[t].orderRegistry[i].bits ],
              [ p \in 0 .. (quantumAllocators[t].partitionCount - 1) |->
                    quantumAllocators[t].partitions[p].registry.bits ] >> ],
       slabAllocator.registry.bits >>

\* C6: an allocate(s) that returns nullptr when no quantum of the order of s
\* is free, no partition slot of its tier is free and (for a slab size) no
\* slab slot is free leaves every roster entry and every bit of the order,
\* partition, quantum and slab registries as it was.
C6_NullLeavesStateUnchanged ==
    [][ ( /\ last'.op = "allocate"
          /\ last'.ret = nullptr
          /\ exhaustedOrder(sizeToOrder(roundUpPowerOf2(last'.size))) ) =>
            allocatorBits' = allocatorBits ]_vars

\* a partition of tier t registered for order index orderIndex holds quanta
\* of that order and has one of them free
freeQuantumServedBy(t, orderIndex) ==
    \E p \in 0 .. (quantumAllocators[t].partitionCount - 1) :
        /\ isSet(quantumAllocators[t].orderRegistry[orderIndex], p)
        /\ quantumAllocators[t].partitions[p].quantumSizeOrder
               = quantumAllocators[t].smallestSizeOrder + orderIndex
        /\ countBits(quantumAllocators[t].partitions[p].registry)
               < quantumAllocators[t].partitions[p].registry.maximumIndex

freeQuantumServed(order) ==
    /\ tierOfOrder(order) # NOT_FOUND
    /\ freeQuantumServedBy(tierOfOrder(order),
           order - quantumAllocators[tierOfOrder(order)].smallestSizeOrder)

\* C7: with no call in progress, allocate does not return nullptr while a
\* quantum of the order asked for is free in a partition that serves that
\* order, whichever of deallocate and deallocate_bulk released it.
C7_ReleasedIsAvailable ==
    [][ ( /\ call = Idle /\ call' = Idle
          /\ last'.op = "allocate"
          /\ last'.ret = nullptr ) =>
            ~freeQuantumServed(sizeToOrder(roundUpPowerOf2(last'.size))) ]_vars

\* the allocator holds address as allocated: its quantum's bit, or the bit of
\* a slab that contains it, is set
quantumIsSet(d, t, partitionIndex, address) ==
    isSet(d.quantumAllocators[t].partitions[partitionIndex].registry,
          quantumIndex(d.quantumAllocators[t].partitions[partitionIndex], address))

isAllocated(d, address) ==
    IF quantumAllocatorOf(d, address) # NOT_FOUND
    THEN quantumIsSet(d, quantumAllocatorOf(d, address),
             getPartitionIndex(d.quantumAllocators[quantumAllocatorOf(d, address)],
                               address),
             address)
    ELSE find(d.slabAllocator, address) # NOT_FOUND

\* C8: deallocate_bulk terminates and releases each address of the buffer:
\* every turn of its loop moves on in the buffer, and when it returns no
\* address of the buffer is still allocated, while the allocations the
\* callers keep are.
C8_BulkReleasesEach ==
    [][ /\ (call.op = "deallocateBulk" /\ call'.op = "deallocateBulk") =>
               call'.deallocated > call.deallocated
        /\ (call.op = "deallocateBulk" /\ call'.op = "none") =>
               /\ \A i \in 1 .. Len(call.addresses) :
                      ~isAllocated(D', call.addresses[i])
               /\ \A a \in live' : isAllocated(D', a.address) ]_vars

\* the state a turn of the loop of QuantumAllocator::allocateCount starts
\* from: the allocator's objects and the iterator's position
loopState == <<roster, quantumAllocators, slabAllocator, mapped, call.index>>

\* C9: every call of allocate_count run by one thread terminates.  A turn of
\* its loop is a function of the state it starts from, so each turn ends the
\* loop or leaves a state other than the one it found: a turn that goes on
\* from the state it started in is repeated without end.
C9_AllocateCountTerminates ==
    [][(call.op = "allocateCount" /\ call.loop /\ call'.op = "allocateCount")
         => (~call'.loop \/ loopState' # loopState)]_vars

\* C10: allocate(0) returns null and claims no block.
C10_AllocateZeroReturnsNull ==
    [][(call = Idle /\ call' = Idle /\ last'.op = "allocate" /\ last'.size = 0)
         => (last'.ret = nullptr /\ allocatorBits' = allocatorBits)]_vars

\* C11: allocate of a size above MAX_ALLOCATION_SIZE returns null and leaves
\* the allocator state unchanged.
C11_OutOfRangeReturnsNull ==
    [][(call = Idle /\ call' = Idle /\ last'.op = "allocate"
          /\ last'.size > MAX_ALLOCATION_SIZE)
         => (last'.ret = nullptr
             /\ UNCHANGED <<roster, quantumAllocators, slabAllocator, mapped>>)]_vars

\* the slab slot i is occupied and its slab holds address
inOccupiedSlab(address, i) ==
    isSet(slabAllocator.registry, i) /\ in(slabAllocator.slabs[i], address)

\* address is the null pointer, or lies outside all quantum allocators and
\* inside no occupied slab
unknownAddress(address) ==
    \/ address = nullptr
    \/ /\ \A t \in Tiers : ~in(quantumAllocators[t], address)
       /\ \A i \in 0 .. (MaxSlabCount - 1) : ~inOccupiedSlab(address, i)

\* C12: for the null pointer and any address outside all quantum allocators
\* and inside no occupied slab, deallocate changes no allocator state, size
\* returns 0, and base and side_data return null.
C12_UnknownAddressIsNoOp ==
    [][(call = Idle /\ call' = Idle /\ last' # last /\ unknownAddress(last'.address))
         => /\ last'.op = "deallocate" =>
                  UNCHANGED <<roster, quantumAllocators, slabAllocator, mapped>>
            /\ last'.op = "size" => last'.ret = ZERO
            /\ last'.op \in {"base", "side_data"} => last'.ret = nullptr]_vars

\* a deallocate, size, base or side_data of an address inside a slab that was
\* released, whose record the slot still holds, while the caller holds a block
C12_UnknownAddressLookedUp ==
    /\ last.op \in {"deallocate", "size", "base", "side_data"}
    /\ unknownAddress(last.address)
    /\ \E i \in 0 .. (MaxSlabCount - 1) :
           in(slabAllocator.slabs[i], last.address)
    /\ live # {}

\* C13: set_reference(exp, v) returns true if and only if the reference word
\* equalled exp when the call took effect; when it returns true the word
\* becomes v, and when it returns false the word is unchanged.
C13_SetReferenceIsCompareAndSet ==
    [][\A th \in Threads :
          (call.threads[th].pc = "called" /\ call'.threads[th].pc = "done")
          => /\ call'.threads[th].ret <=> (reference = call.threads[th].oldValue)
             /\ call'.threads[th].ret => reference' = call.threads[th].newValue
             /\ ~call'.threads[th].ret => reference' = reference]_vars

\* C14: when two threads concurrently call set_reference with the same
\* expected value, which is the current reference word, and new values that
\* differ from it, exactly one of the two calls returns true.
C14_ExactlyOneRacerWins ==
    (call.raced /\ \A th \in Threads : call.threads[th].pc = "done")
    => Cardinality({ th \in Threads : call.threads[th].ret }) = 1

\* C15: in secure mode a block obtained from allocate holds only zero bytes,
\* whatever was stored to it before it was released by deallocate,
\* deallocate_bulk or deallocate_count and however the steps of the calls of
\* the threads interleave.
C15_AllocatedBlockIsZero ==
    (secure /\ last.op = "allocate" /\ last.ret # nullptr) =>
        wordsOf(last.ret, Director_allocationSize(D, last.ret)) \cap nonzero = {}

\* the number of results of the walk so far that equal address
visits(address) ==
    Cardinality({ i \in 1 .. Len(call.addresses) : call.addresses[i] = address })

\* C16: with no other call in progress, the walk next(null), next(a1), ...
\* returns no address more often than there are live allocations at it (so
\* none that is not live, and it ends after at most as many results as there
\* are live allocations), and when it has returned null it has returned the
\* address of every live allocation.
C16_WalkVisitsLiveOnce ==
    call.op = "walk" =>
        /\ \A i \in 1 .. Len(call.addresses) :
               visits(call.addresses[i])
                   <= Cardinality({ a \in live : a.address = call.addresses[i] })
        /\ ~call.loop => \A a \in live : visits(a.address) >= 1

\* the orders of the blocks: slots SMALLEST_SIZE_ORDER to MAX_ALLOCATION_ORDER
BlockOrders == SMALLEST_SIZE_ORDER .. MAX_ALLOCATION_ORDER

\* the live blocks of order k
liveOfOrder(k) ==
    { a \in live : sizeToOrder(Director_allocationSize(D, a.address)) = k }

\* the sum of array[k] over the orders k from lo to MAX_ALLOCATION_ORDER
RECURSIVE sumOrders(_, _)
sumOrders(array, lo) ==
    IF lo > MAX_ALLOCATION_ORDER THEN 0 ELSE array[lo] + sumOrders(array, lo + 1)

\* the sum of the sizes asked for with the allocations of S
RECURSIVE sumRequested(_)
sumRequested(S) ==
    IF S = {} THEN 0
    ELSE only({ a.size + sumRequested(S \ {a}) : a \in {CHOOSE x \in S : TRUE} })

\* C17: in the arrays that stats fills, counts[0] is the sum of the counts of the block orders,
\* counts[k] is the number of live blocks of order k, and sizes[0] is at
\* least the sum of the sizes asked for.
C17_StatsTotals ==
    last.op = "stats" =>
        /\ last.counts[0] = sumOrders(last.counts, SMALLEST_SIZE_ORDER)
        /\ \A k \in BlockOrders : last.counts[k] = Cardinality(liveOfOrder(k))
        /\ last.sizes[0] >= sumRequested(live)

\* the sizes asked for where the base of a block is looked up: the smallest
\* size, the largest quantum size, and the two smallest slab sizes
BaseSizes ==
    { orderToSize(SMALLEST_SIZE_ORDER), orderToSize(LARGEST_SIZE_ORDER),
      orderToSize(LARGEST_SIZE_ORDER + 1), orderToSize(LARGEST_SIZE_ORDER + 2) }

\* the bytes of a block of size bytes that are looked up: the first two, the
\* middle one and the last one
InnerOffsets(size) == { 0, 1, size \div 2, size - 1 }

\* the calls qba_allocate and qba_deallocate, and qba_base of bytes of the
\* blocks the caller holds
NextBase ==
    \/ \E size \in BaseSizes : \E os \in OsChoicesFor(size) : Allocate(size, os)
    \/ \E a \in live : Deallocate(a)
    \/ \E a \in live : \E k \in InnerOffsets(Director_allocationSize(D, a.address)) :
           Base(a.address + k)

SpecBase == Init /\ [][NextBase]_vars

\* C18: base of any byte of a live allocation a, a + k with 0 <= k < size(a),
\* is a, in the quantum partitions and in the slabs.
C18_BaseOfInnerAddress ==
    last.op = "base" =>
        \A a \in live :
            (a.address <= last.address
             /\ last.address < a.address + Director_allocationSize(D, a.address))
                => last.ret = a.address

\* the sizes asked for where the alignment of a block is looked at: the
\* smallest size, the smallest of the second tier, the largest quantum size,
\* and the two smallest slab sizes
AlignSizes ==
    { orderToSize(SMALLEST_SIZE_ORDER), orderToSize(tierSmallestSizeOrder(1)),
      orderToSize(LARGEST_SIZE_ORDER), orderToSize(LARGEST_SIZE_ORDER + 1),
      orderToSize(LARGEST_SIZE_ORDER + 2) }

\* the calls qba_allocate and qba_deallocate, the operating system placing a
\* mapping at any page
NextAlign ==
    \/ \E size \in AlignSizes : \E os \in OsPagesFor(size) : Allocate(size, os)
    \/ \E a \in live : Deallocate(a)

SpecAlign == Init /\ [][NextAlign]_vars

\* the alignment promised for a block of size bytes
alignmentOf(size) ==
    IF size <= orderToSize(LARGEST_SIZE_ORDER) THEN size
    ELSE orderToSize(LARGEST_SIZE_ORDER)

NextSideData ==
    \/ \E size \in BaseSizes : \E os \in OsChoicesFor(size) : Allocate(size, os)
    \/ \E a \in live : Deallocate(a)
    \/ \E a \in live : \E k \in InnerOffsets(Director_allocationSize(D, a.address)) :
           SideData(a.address + k)

SpecSideData == Init /\ [][NextSideData]_vars

\* the bytes of the side data of the block at address
sideDataOf(address) ==
    LET sideData == Director_allocationSideData(D, address)
    IN  { x \in sideData .. (sideData + SideDataSize - 1) : TRUE }

\* C20: with sideDataSize > 0, side_data of any byte a + k of a live
\* allocation a, 0 <= k < size(a), is side_data(a), and the side data ranges
\* of two distinct allocations that are live at the same time are disjoint.
C20_SideDataOfBlock ==
    /\ last.op = "side_data" =>
           \A a \in live :
               (a.address <= last.address
                /\ last.address < a.address + Director_allocationSize(D, a.address))
                   => last.ret = Director_allocationSideData(D, a.address)
    /\ \A a \in live : \A b \in live :
           a.id # b.id => sideDataOf(a.address) \cap sideDataOf(b.address) = {}

\* qba_create with no side data
InitNoSideData ==
    /\ secure = Secure
    /\ roster = createDirectorWith(Secure, 0).roster
    /\ quantumAllocators = createDirectorWith(Secure, 0).quantumAllocators
    /\ slabAllocator = createDirectorWith(Secure, 0).slabAllocator
    /\ mapped = createDirectorWith(Secure, 0).mapped
    /\ reference = createDirectorWith(Secure, 0).reference
    /\ nonzero = createDirectorWith(Secure, 0).nonzero
    /\ live = {}
    /\ last = Call("create", 0, nullptr, nullptr, {})
    /\ call = Idle

\* the calls qba_allocate and qba_deallocate, and qba_side_data of bytes of
\* the blocks the caller holds and of addresses in no block, on an allocator
\* created with no side data
NextNoSideData ==
    \/ \E size \in BaseSizes : \E os \in OsLowestFor(size) : Allocate(size, os)
    \/ \E a \in live : Deallocate(a)
    \/ \E a \in live : \E k \in InnerOffsets(Director_allocationSize(D, a.address)) :
           SideData(a.address + k)
    \/ \E address \in OutsideAddresses : SideData(address)

SpecNoSideData == InitNoSideData /\ [][NextNoSideData]_vars

\* C21: on an allocator created with sideDataSize = 0, side_data returns
\* nullptr for every address, the blocks that are live in the quantum
\* partitions and in the slabs included.
C21_NoSideDataIsNull ==
    last.op = "side_data" => last.ret = nullptr


\* the sizes asked for in bulk: the smallest size of the first quantum
\* allocator, and one that is not a power of two, served by the next order
AllocateBulkSizes ==
    { orderToSize(SMALLEST_SIZE_ORDER), orderToSize(SMALLEST_SIZE_ORDER) + 1 }

\* the calls qba_allocate_bulk and qba_deallocate
NextAllocateBulk ==
    \/ \E size \in AllocateBulkSizes : \E count \in 0 .. MaxBulkCount :
          \E contiguous \in BOOLEAN : \E ub \in UBOutcomes :
             AllocateBulk(size, count, contiguous, ub)
    \/ \E a \in live : Deallocate(a)

SpecAllocateBulk == Init /\ [][NextAllocateBulk]_vars

\* C22: allocate_bulk with contiguous = true on a quantum allocator returns
\* 0 or count; when it returns count, consecutive addresses of the buffer
\* differ by the quantum size 2^order(size), and every quantum returned was
\* free before the call and is allocated after it.
C22_ContiguousBulk ==
    (last.op = "allocateBulk" /\ last.contiguous) =>
        /\ last.ret \in {0, last.count}
        /\ last.ret = last.count =>
               /\ \A i \in 1 .. (last.count - 1) :
                      last.addresses[i + 1] - last.addresses[i]
                          = orderToSize(sizeToOrder(last.size))
               /\ last.taken = {}
               /\ \A i \in 1 .. last.count : isAllocated(D, last.addresses[i])


\* the sizes asked of qba_allocate_fit: sizes between two powers of two that
\* are served by runs of quanta of the first and of the second order of the
\* first quantum allocator
FitSizes ==
    { orderToSize(SMALLEST_SIZE_ORDER + 1) + orderToSize(SMALLEST_SIZE_ORDER - 1),
      orderToSize(SMALLEST_SIZE_ORDER + 2) + orderToSize(SMALLEST_SIZE_ORDER) }

\* the calls qba_allocate_fit and qba_deallocate_fit, with qba_allocate_bulk
\* of single quanta and qba_deallocate, which leave runs of free quanta at
\* every place of a partition
NextFit ==
    \/ \E size \in FitSizes : \E degree \in 1 .. MAX_FIT_DEGREE :
          \E ub \in UBOutcomes : AllocateFitCall(size, degree, -1, ub)
    \/ AllocateCountTurn
    \/ AllocateCountReturn
    \/ \E a \in live : \E size \in FitSizes : \E degree \in 1 .. MAX_FIT_DEGREE :
          \E ub \in UBOutcomes : DeallocateFit(a, size, degree, ub)
    \/ \E count \in 1 .. (MaxBulkCount - 1) : \E ub \in UBOutcomes :
          AllocateBulk(orderToSize(SMALLEST_SIZE_ORDER), count, FALSE, ub)
    \/ \E a \in live : Deallocate(a)

SpecFit == Init /\ [][NextFit]_vars

\* the quanta an allocation of the caller is made of
quantaOf(a) ==
    { a.address + i * orderToSize(sizeToOrder(a.size)) : i \in 0 .. (a.count - 1) }

\* the quanta the partitions hold as allocated
quantaSet ==
    UNION { UNION { { quantumAllocators[t].partitions[p].base
                          + orderMul(i, quantumAllocators[t].partitions[p]
                                            .quantumSizeOrder) :
                      i \in { j \in 0 .. (quantumAllocators[t].partitions[p]
                                              .registry.maximumIndex - 1) :
                                isSet(quantumAllocators[t].partitions[p].registry, j) } } :
                    p \in 0 .. (quantumAllocators[t].partitionCount - 1) } :
            t \in Tiers }

\* C23: a successful allocate_fit claims exactly FitSize.count consecutive
\* quanta of FitSize.size bytes from the returned address on, and
\* deallocate_fit releases exactly those: when either has returned, the
\* quanta allocated are those of the allocations the caller holds, each in
\* one allocation only.
C23_FitClaimsAndReleasesItsRun ==
    (call = Idle /\ last.op \in {"allocateCount", "deallocateCount"}) =>
        /\ quantaSet = UNION { quantaOf(a) : a \in live }
        /\ \A a \in live : \A b \in live :
               a # b => quantaOf(a) \cap quantaOf(b) = {}


(***************************************************************************)
(* One Registry used by several threads.  The registry is that of the      *)
(* first partition of the first quantum allocator, in use for the smallest *)
(* size; Partition::allocate and Partition::deallocate call findFree and   *)
(* free on it.  A step of a thread is one access to an atomic word of the  *)
(* registry, with the computation that follows it.  call.threads holds     *)
(* what a thread has in its local variables: wordIndex and value of        *)
(* findFree, lowestFreeIndex of updateLowestFreeWordIndex.  An index is    *)
(* held (an allocation in live, with the thread that got it in by) from    *)
(* the return of the findFree that gave it to the clearing of its bit by   *)
(* free.                                                                   *)
(***************************************************************************)
\* the most allocations held at a time
MaxRegistryLive == 4

\* the allocator after qba_allocate of the smallest size and qba_deallocate
\* of the block: the partition exists and its registry is empty
registryDirector ==
    only({ Director_deallocate(got.d, got.ret) :
           got \in {Director_allocate(createDirector(Secure),
                                      orderToSize(SMALLEST_SIZE_ORDER), -1)} })

\* the partition whose registry the threads use
thePartition == quantumAllocators[0].partitions[0]

theRegistry == thePartition.registry

registryBecomes(r) ==
    /\ quantumAllocators' = [quantumAllocators EXCEPT ![0].partitions[0].registry = r]
    /\ UNCHANGED <<secure, roster, slabAllocator, mapped, reference, nonzero>>

RegistryThreadIdle ==
    [pc |-> "idle", wordIndex |-> 0, value |-> 0, lowestFreeIndex |-> 0]

InitRegistry ==
    /\ secure = Secure
    /\ roster = registryDirector.roster
    /\ quantumAllocators = registryDirector.quantumAllocators
    /\ slabAllocator = registryDirector.slabAllocator
    /\ mapped = registryDirector.mapped
    /\ reference = registryDirector.reference
    /\ nonzero = registryDirector.nonzero
    /\ live = {}
    /\ last = Call("create", 0, nullptr, nullptr, {})
    /\ call = [Idle EXCEPT !.op = "registry",
                           !.threads = [th \in Threads |-> RegistryThreadIdle]]

\* a compare-exchange that stores without comparing
swapBits_stores(r, wordIndex, existing, value, fails) ==
    [reg |-> [r EXCEPT !.bits[wordIndex] = value], ok |-> TRUE, existing |-> existing]

\* Registry::swapBits: compare_exchange_weak of a word.  fails tells that the
\* exchange fails although the word holds the expected value; existing is
\* the value the call leaves in its first argument.
swapBits(r, wordIndex, existing, value, fails) ==
    IF r.bits[wordIndex] = existing /\ ~fails
    THEN [reg |-> [r EXCEPT !.bits[wordIndex] = value], ok |-> TRUE,
          existing |-> existing]
    ELSE [reg |-> r, ok |-> FALSE, existing |-> r.bits[wordIndex]]

\* Registry::swapLowestIndex: compare_exchange_weak of _lowestIndex
swapLowestIndex(r, existing, value, fails) ==
    IF r.lowestIndex = existing /\ ~fails
    THEN [reg |-> [r EXCEPT !.lowestIndex = value], ok |-> TRUE, existing |-> existing]
    ELSE [reg |-> r, ok |-> FALSE, existing |-> r.lowestIndex]

\* the lowest id no allocation held uses
RegistryFreeId ==
    CHOOSE i \in 1 .. (MaxRegistryLive + Cardinality(Threads)) :
        /\ \A a \in live : a.id # i
        /\ \A j \in 1 .. (i - 1) : \E a \in live : a.id = j

\* the address of the quantum with this index, as Partition::allocate
\* computes it
quantumAddress(index) ==
    thePartition.base + orderMul(index, thePartition.quantumSizeOrder)

\* a thread returns from a call on the registry
RegistryReturn(th, op, index) ==
    /\ call' = [call EXCEPT !.threads[th] = RegistryThreadIdle]
    /\ last' = Call(op, 0, nullptr, index, {})

\* Registry::findFree is entered: the load of _lowestIndex
FindFreeCall(th) ==
    /\ call.op = "registry"
    /\ call.threads[th].pc = "idle"
    /\ Cardinality(live) < MaxRegistryLive
    /\ call' = [call EXCEPT !.threads[th] =
                   [RegistryThreadIdle EXCEPT !.pc = "findFree",
                                              !.wordIndex = theRegistry.lowestIndex]]
    /\ UNCHANGED <<secure, roster, quantumAllocators, slabAllocator, mapped,
                   reference, nonzero, live, last>>

\* Registry::findFree, the head of the loop: the load of the word and the
\* tests that follow it
FindFreeLoad(th) ==
    /\ call.op = "registry"
    /\ call.threads[th].pc = "findFree"
    /\ UNCHANGED <<secure, roster, quantumAllocators, slabAllocator, mapped,
                   reference, nonzero, live>>
    /\ IF call.threads[th].wordIndex = theRegistry.maximumWordIndex
       THEN RegistryReturn(th, "findFree", NOT_FOUND)
       ELSE \E value \in {getBits(theRegistry, call.threads[th].wordIndex)} :
              IF value = ALL_ONES
              THEN /\ call' = [call EXCEPT !.threads[th].pc = "increment",
                                           !.threads[th].value = value]
                   /\ UNCHANGED last
              ELSE IF theRegistry.maximumIndex
                          <= getIndex(call.threads[th].wordIndex, ctz(bitNot(value)))
              THEN RegistryReturn(th, "findFree", NOT_FOUND)
              ELSE /\ call' = [call EXCEPT !.threads[th].pc = "swap",
                                           !.threads[th].value = value]
                   /\ UNCHANGED last

\* incrementLowestFreeWordIndex that returns the word index it was given
\* when the compare-exchange fails
FindFreeIncrement_keeps(th, fails) ==
    /\ call.op = "registry"
    /\ call.threads[th].pc = "increment"
    /\ \E got \in {swapLowestIndex(theRegistry, call.threads[th].wordIndex,
                                   call.threads[th].wordIndex + 1, fails)} :
           /\ registryBecomes(got.reg)
           /\ call' = [call EXCEPT !.threads[th].pc = "findFree",
                                   !.threads[th].wordIndex =
                                       IF got.ok THEN @ + 1 ELSE @]
    /\ UNCHANGED <<live, last>>

\* Registry::incrementLowestFreeWordIndex called by findFree: the
\* compare-exchange of _lowestIndex
FindFreeIncrement(th, fails) ==
    /\ call.op = "registry"
    /\ call.threads[th].pc = "increment"
    /\ \E got \in {swapLowestIndex(theRegistry, call.threads[th].wordIndex,
                                   call.threads[th].wordIndex + 1, fails)} :
           /\ registryBecomes(got.reg)
           /\ call' = [call EXCEPT !.threads[th].pc = "findFree",
                                   !.threads[th].wordIndex =
                                       IF got.ok THEN @ + 1 ELSE got.existing]
    /\ UNCHANGED <<live, last>>

\* Registry::findFree, the compare-exchange that sets the bit: the call
\* returns the index when it succeeds and goes round the loop when it fails.
\* raced tells that a thread found the bit it was about to set taken by
\* another.
FindFreeSwap(th, fails) ==
    /\ call.op = "registry"
    /\ call.threads[th].pc = "swap"
    /\ \E bitIndex \in {ctz(bitNot(call.threads[th].value))} :
       \E got \in {swapBits(theRegistry, call.threads[th].wordIndex,
                            call.threads[th].value,
                            bitOr(call.threads[th].value, twoToOrder(bitIndex)),
                            fails)} :
           /\ registryBecomes(got.reg)
           /\ IF got.ok
              THEN /\ call' = [call EXCEPT !.threads[th] = RegistryThreadIdle]
                   /\ last' = Call("findFree", 0, nullptr,
                                   getIndex(call.threads[th].wordIndex, bitIndex), {})
                   /\ live' = live \cup
                          {Allocation(RegistryFreeId,
                               quantumAddress(getIndex(call.threads[th].wordIndex,
                                                       bitIndex)),
                               quantumSize(thePartition), th)}
              ELSE /\ call' = [call EXCEPT
                                  !.threads[th].pc = "findFree",
                                  !.raced = @ \/ bitAnd(got.existing,
                                                        twoToOrder(bitIndex)) # 0]
                   /\ UNCHANGED <<live, last>>

\* Registry::free is entered: the fetch-and that clears the bit
FreeCall(th, a) ==
    /\ call.op = "registry"
    /\ call.threads[th].pc = "idle"
    /\ a.count = 1
    /\ registryBecomes(clear(theRegistry, quantumIndex(thePartition, a.address)))
    /\ live' = live \ {a}
    /\ call' = [call EXCEPT !.threads[th] =
                   [RegistryThreadIdle EXCEPT
                       !.pc = "update",
                       !.wordIndex = getWordIndex(quantumIndex(thePartition, a.address))]]
    /\ UNCHANGED last

\* Registry::updateLowestFreeWordIndex: the load of _lowestIndex
UpdateLoad(th) ==
    /\ call.op = "registry"
    /\ call.threads[th].pc = "update"
    /\ call' = [call EXCEPT !.threads[th].pc = "lower",
                            !.threads[th].lowestFreeIndex = theRegistry.lowestIndex]
    /\ UNCHANGED <<secure, roster, quantumAllocators, slabAllocator, mapped,
                   reference, nonzero, live, last>>

\* Registry::updateLowestFreeWordIndex, a turn of the loop: the test and the
\* compare-exchange of _lowestIndex
UpdateLower(th, fails) ==
    /\ call.op = "registry"
    /\ call.threads[th].pc = "lower"
    /\ UNCHANGED live
    /\ IF call.threads[th].lowestFreeIndex <= call.threads[th].wordIndex
       THEN /\ RegistryReturn(th, "free", NOT_FOUND)
            /\ UNCHANGED <<secure, roster, quantumAllocators, slabAllocator, mapped,
                           reference, nonzero>>
       ELSE \E got \in {swapLowestIndex(theRegistry, call.threads[th].lowestFreeIndex,
                                        call.threads[th].wordIndex, fails)} :
              /\ registryBecomes(got.reg)
              /\ IF got.ok
                 THEN RegistryReturn(th, "free", NOT_FOUND)
                 ELSE /\ call' = [call EXCEPT !.threads[th].lowestFreeIndex =
                                                  got.existing]
                      /\ UNCHANGED last

\* the calls findFree and free of the threads
NextFindFree ==
    \/ \E th \in Threads : FindFreeCall(th)
    \/ \E th \in Threads : FindFreeLoad(th)
    \/ \E th \in Threads : \E fails \in BOOLEAN : FindFreeIncrement(th, fails)
    \/ \E th \in Threads : \E fails \in BOOLEAN : FindFreeSwap(th, fails)
    \/ \E th \in Threads : \E a \in live : FreeCall(th, a)
    \/ \E th \in Threads : UpdateLoad(th)
    \/ \E th \in Threads : \E fails \in BOOLEAN : UpdateLower(th, fails)

SpecFindFree == InitRegistry /\ [][NextFindFree]_vars

\* C24: whatever the interleaving of the findFree and free calls of the
\* threads, spurious failures of the compare-exchanges included, no index is
\* held twice: an index that findFree returned is returned again only after
\* a free has cleared its bit.
C24_IndexHeldOnce ==
    \A a \in live : \A b \in live : a # b => a.address # b.address

\* two threads went for one bit, one of them found it taken, and both hold an
\* index
C24_RaceForOneBit ==
    /\ call.raced
    /\ \E a \in live : \E b \in live : a.by # b.by


(***************************************************************************)
(* The Registry of the partition used by one thread: findFree, free,       *)
(* findFreeRange and freeRange run alone, as Partition::allocate,          *)
(* deallocate, allocateCount and deallocateCount call them.  A run is held *)
(* from the findFreeRange that returned it to its freeRange.  last keeps   *)
(* the registry as it was when the call was entered.                       *)
(***************************************************************************)
RangeCall(op, count, index, ret, ub) ==
    [op |-> op, count |-> count, index |-> index, ret |-> ret, ub |-> ub, before |-> theRegistry]

\* the counts findFreeRange does not hand to findFree
RangeCounts == 2 .. theRegistry.maximumIndex

RangeFindFree ==
    /\ Cardinality(live) < MaxRegistryLive
    /\ \E got \in {findFree(theRegistry)} :
           /\ registryBecomes(got.reg)
           /\ last' = RangeCall("findFree", 1, NOT_FOUND, got.ret, "mod")
           /\ live' = IF got.ret = NOT_FOUND THEN live
                      ELSE live \cup {Allocation(RegistryFreeId, quantumAddress(got.ret),
                                                 quantumSize(thePartition), "t1")}
    /\ UNCHANGED call

RangeFree(a) ==
    /\ a.count = 1
    /\ registryBecomes(free(theRegistry, quantumIndex(thePartition, a.address)))
    /\ last' = RangeCall("free", 1, quantumIndex(thePartition, a.address), NOT_FOUND, "mod")
    /\ live' = live \ {a}
    /\ UNCHANGED call

RangeFindFreeRange(count, ub) ==
    /\ Cardinality(live) < MaxRegistryLive
    /\ \E got \in {findFreeRange(theRegistry, count, ub)} :
           /\ registryBecomes(got.reg)
           /\ last' = RangeCall("findFreeRange", count, NOT_FOUND, got.ret, ub)
           /\ live' = IF got.ret = NOT_FOUND THEN live
                      ELSE live \cup {CountAllocation(RegistryFreeId, quantumAddress(got.ret),
                                                      quantumSize(thePartition), count, "t1")}
    /\ UNCHANGED call

RangeFreeRange(a, ub) ==
    /\ a.count > 1
    /\ registryBecomes(freeRange(theRegistry, quantumIndex(thePartition, a.address),
                                 a.count, ub))
    /\ last' = RangeCall("freeRange", a.count, quantumIndex(thePartition, a.address),
                         NOT_FOUND, ub)
    /\ live' = live \ {a}
    /\ UNCHANGED call

NextRange ==
    \/ RangeFindFree
    \/ \E a \in live : RangeFree(a)
    \/ \E count \in RangeCounts : \E ub \in UBOutcomes : RangeFindFreeRange(count, ub)
    \/ \E a \in live : \E ub \in UBOutcomes : RangeFreeRange(a, ub)

SpecRange == InitRegistry /\ [][NextRange]_vars

\* the bit indexes of the registry
RangeIndexes == 0 .. (theRegistry.maximumIndex - 1)

\* C25: run alone, a findFreeRange(n) that succeeds, 2 <= n <= maximumIndex,
\* returns an index i with i + n <= maximumIndex such that the bits i .. i+n-1
\* were all zero when the call was entered and are all set when it returns,
\* and no other bit of the registry has changed.
C25_RangeClaimsFreeBits ==
    (last.op = "findFreeRange" /\ last.ret # NOT_FOUND) =>
        /\ 0 <= last.ret
        /\ last.ret + last.count <= theRegistry.maximumIndex
        /\ \A k \in RangeIndexes :
               IF last.ret <= k /\ k < last.ret + last.count
               THEN ~isSet(last.before, k) /\ isSet(theRegistry, k)
               ELSE isSet(theRegistry, k) = isSet(last.before, k)


(***************************************************************************)
(* findFreeRange and freeRange of the threads.  The steps are again the    *)
(* accesses to the atomic words.  A range is set word by word: position 0  *)
(* is the first word with firstMask, positions 1 .. words are the middle   *)
(* words with ALL_ONES, position words + 1 is the last word with lastMask; *)
(* a range in one word (single) has position 0 only.  own, reclaimed and   *)
(* cleared are not in the code: own holds the indexes of the bits the      *)
(* attempt has changed from zero to one, reclaimed those it has set that   *)
(* were one already, cleared those its rollback has changed from one to    *)
(* zero.                                                                   *)
(***************************************************************************)
\* the most allocations held when a call that claims is entered
MaxRangeLive == 2

\* the threads that call findFreeRange and freeRange, and those that call
\* findFree and free
RangeThreads == {"t1"}

FindFreeThreads == {"t2"}

RangeThread(pc, count, ub, wordIndex) ==
    [pc |-> pc, wordIndex |-> wordIndex, value |-> 0, lowestFreeIndex |-> 0, count |-> count, ub |-> ub, index |-> NOT_FOUND, single |-> FALSE, firstMask |-> 0, words |-> 0, lastMask |-> 0, i |-> 0, limit |-> 0, own |-> {}, reclaimed |-> {}, cleared |-> {}]

\* the indexes of the bits of mask in the word wordIndex
bitsOf(wordIndex, mask) ==
    { getIndex(wordIndex, b) : b \in { c \in 0 .. (BITS_PER_WORD - 1) : bitAnd(mask, twoToOrder(c)) # 0 } }

\* the range one turn of the loop of Registry::findFreeRange goes for, from
\* the word it has read: found is FALSE where the turn returns NOT_FOUND
rangeFound(found, index, single, firstMask, words, lastMask) ==
    [found |-> found, index |-> index, single |-> single, firstMask |-> firstMask, words |-> words, lastMask |-> lastMask]

findFreeRangeTurn(r, value, wordIndex, count, ub) ==
    IF count <= BITS_PER_WORD
    THEN \* the range is in at most two words
         only({ IF r.maximumIndex - count <= getIndex(wordIndex, bitIndex)
                THEN rangeFound(FALSE, NOT_FOUND, TRUE, 0, 0, 0)
                ELSE IF bitIndex + count <= BITS_PER_WORD
                THEN rangeFound(TRUE, getIndex(wordIndex, bitIndex), TRUE,
                             shl(loMask(count, ub), bitIndex, ub), 0, 0)
                ELSE rangeFound(TRUE, getIndex(wordIndex, bitIndex), FALSE,
                             shl(loMask(count, ub), bitIndex, ub), 0,
                             loMask(count - bitIndex, ub)) :
                bitIndex \in {lowestZeroBitsPosition(value, count, ub)} })
    ELSE \* the range starts with the upper bits of the word
         only({ IF r.maximumIndex - count <= getIndex(wordIndex, BITS_PER_WORD - leading)
                THEN rangeFound(FALSE, NOT_FOUND, FALSE, 0, 0, 0)
                ELSE rangeFound(TRUE, getIndex(wordIndex, BITS_PER_WORD - leading), FALSE,
                             hiMask(leading, ub), getWordIndex(count - leading),
                             loMask(getBitIndex(count - leading), ub)) :
                leading \in {clz(value)} })

\* the range Registry::freeRange clears
freeRangeOf(index, count, ub) ==
    IF getBitIndex(index) + count <= BITS_PER_WORD
    THEN rangeFound(TRUE, index, TRUE, shl(loMask(count, ub), getBitIndex(index), ub), 0, 0)
    ELSE IF count <= BITS_PER_WORD
    THEN rangeFound(TRUE, index, FALSE, shl(loMask(count, ub), getBitIndex(index), ub), 0,
                 loMask(count - getBitIndex(index), ub))
    ELSE rangeFound(TRUE, index, FALSE, hiMask(BITS_PER_WORD - getBitIndex(index), ub),
                 getWordIndex(count - (BITS_PER_WORD - getBitIndex(index))),
                 loMask(getBitIndex(count - (BITS_PER_WORD - getBitIndex(index))), ub))

\* the mask of the position a thread is at
maskAt(t) ==
    IF t.i = 0 THEN t.firstMask
    ELSE IF t.i <= t.words THEN ALL_ONES
    ELSE t.lastMask

\* findFreeRange returns
RangeReturn(th, ret) ==
    /\ call' = [call EXCEPT !.threads[th] = RegistryThreadIdle]
    /\ last' = [op |-> "findFreeRange", count |-> call.threads[th].count, ret |-> ret, by |-> th, ub |-> call.threads[th].ub, reclaimed |-> {}]

\* Registry::findFreeRange is entered with a count above one: the load of
\* _lowestIndex
FindFreeRangeCall(th, count, ub) ==
    /\ call.op = "registry"
    /\ call.threads[th].pc = "idle"
    /\ Cardinality(live) < MaxRangeLive
    /\ call' = [call EXCEPT !.threads[th] =
                   RangeThread("range", count, ub, theRegistry.lowestIndex)]
    /\ UNCHANGED <<secure, roster, quantumAllocators, slabAllocator, mapped,
                   reference, nonzero, live, last>>

\* Registry::findFreeRange, the head of the loop: the load of the word and the
\* search in it
FindFreeRangeLoad(th) ==
    /\ call.op = "registry"
    /\ call.threads[th].pc = "range"
    /\ UNCHANGED <<secure, roster, quantumAllocators, slabAllocator, mapped,
                   reference, nonzero, live>>
    /\ IF ~(call.threads[th].wordIndex < theRegistry.maximumIndex)
       THEN RangeReturn(th, NOT_FOUND)
       ELSE \E range \in {findFreeRangeTurn(theRegistry,
                              getBitsAny(theRegistry, call.threads[th].wordIndex),
                              call.threads[th].wordIndex, call.threads[th].count,
                              call.threads[th].ub)} :
              IF ~range.found
              THEN RangeReturn(th, NOT_FOUND)
              ELSE /\ call' = [call EXCEPT !.threads[th] =
                         [@ EXCEPT !.pc = "setLoad", !.index = range.index,
                                   !.single = range.single,
                                   !.firstMask = range.firstMask,
                                   !.words = range.words,
                                   !.lastMask = range.lastMask,
                                   !.i = 0, !.own = {}, !.reclaimed = {},
                                   !.cleared = {}]]
                   /\ UNCHANGED last

\* the thread after its conditionallySetMask of position t.i has returned
\* true: the next position, or the return of the index (an index -1 is
\* NOT_FOUND for the caller)
RangeSetDone(th, t) ==
    IF t.single \/ t.i = t.words + 1
    THEN /\ call' = [call EXCEPT !.threads[th] = RegistryThreadIdle]
         /\ last' = [op |-> "findFreeRange", count |-> t.count, ret |-> t.index, by |-> th, ub |-> t.ub, reclaimed |-> t.reclaimed]
         /\ live' = IF t.index = NOT_FOUND THEN live
                    ELSE live \cup {CountAllocation(RegistryFreeId, quantumAddress(t.index),
                                                    quantumSize(thePartition), t.count, th)}
    ELSE /\ call' = [call EXCEPT !.threads[th] = [t EXCEPT !.pc = "setLoad", !.i = @ + 1]]
         /\ UNCHANGED <<live, last>>

\* Registry::conditionallySetMask(wordIndex, mask): the load of the word; with
\* an empty mask the call returns true
RangeSetLoad(th) ==
    /\ call.op = "registry"
    /\ call.threads[th].pc = "setLoad"
    /\ UNCHANGED <<secure, roster, quantumAllocators, slabAllocator, mapped,
                   reference, nonzero>>
    /\ IF maskAt(call.threads[th]) = 0
       THEN RangeSetDone(th, call.threads[th])
       ELSE /\ call' = [call EXCEPT
                   !.threads[th].pc = "setSwap",
                   !.threads[th].value =
                       getBitsAny(theRegistry,
                                  call.threads[th].wordIndex + call.threads[th].i)]
            /\ UNCHANGED <<live, last>>

\* Registry::conditionallySetMask(wordIndex, value, mask): the
\* compare-exchange of the word with value | mask.  When it fails at the
\* first word the loop of findFreeRange goes to the next word; when it fails
\* later conditionallySetMaskRange clears what it has set.
RangeSetSwap(th, fails) ==
    /\ call.op = "registry"
    /\ call.threads[th].pc = "setSwap"
    /\ \E t \in {call.threads[th]} :
       \E got \in {swapBits(theRegistry, t.wordIndex + t.i, t.value,
                            bitOr(t.value, maskAt(t)), fails)} :
           /\ registryBecomes(got.reg)
           /\ IF got.ok
              THEN RangeSetDone(th,
                       [t EXCEPT !.own = @ \cup bitsOf(t.wordIndex + t.i,
                                                       bitAnd(maskAt(t), bitNot(t.value))),
                                 !.reclaimed = @ \cup bitsOf(t.wordIndex + t.i,
                                                             bitAnd(maskAt(t), t.value))])
              ELSE /\ call' = [call EXCEPT !.threads[th] =
                         IF t.i = 0
                         THEN [t EXCEPT !.pc = "range", !.wordIndex = @ + 1]
                         ELSE [t EXCEPT !.pc = "rollback", !.limit = t.i, !.i = 0]]
                   /\ UNCHANGED <<live, last>>

\* Registry::clearMaskRange called by conditionallySetMaskRange: the
\* fetch-and of one word.  After the last one findFreeRange goes to the next
\* word.
RangeRollback(th) ==
    /\ call.op = "registry"
    /\ call.threads[th].pc = "rollback"
    /\ \E t \in {call.threads[th]} :
       \E gone \in {bitsOf(t.wordIndex + t.i,
                           bitAnd(maskAt(t), getBits(theRegistry, t.wordIndex + t.i)))} :
           /\ registryBecomes(clearMask(theRegistry, t.wordIndex + t.i, maskAt(t)))
           /\ IF t.i + 1 = t.limit
              THEN /\ call' = [call EXCEPT !.threads[th] =
                         [t EXCEPT !.pc = "range", !.wordIndex = @ + 1, !.i = 0,
                                   !.cleared = @ \cup gone]]
                   /\ last' = [op |-> "rollback", by |-> th, own |-> t.own, cleared |-> t.cleared \cup gone]
              ELSE /\ call' = [call EXCEPT !.threads[th] =
                         [t EXCEPT !.i = @ + 1, !.cleared = @ \cup gone]]
                   /\ UNCHANGED last
    /\ UNCHANGED live

\* the thread after freeRange has cleared position t.i
FreeRangeDone(th, t) ==
    call' = [call EXCEPT !.threads[th] =
                IF t.single \/ t.i = t.words + 1
                THEN [t EXCEPT !.pc = "update"]
                ELSE [t EXCEPT !.pc = "clearRange", !.i = @ + 1]]

\* Registry::freeRange is entered: the fetch-and that clears the first mask
FreeRangeCall(th, a, ub) ==
    /\ call.op = "registry"
    /\ call.threads[th].pc = "idle"
    /\ a.count > 1
    /\ \E index \in {quantumIndex(thePartition, a.address)} :
       \E range \in {freeRangeOf(index, a.count, ub)} :
           /\ registryBecomes(clearMask(theRegistry, getWordIndex(index), range.firstMask))
           /\ FreeRangeDone(th, [RangeThread("clearRange", a.count, ub, getWordIndex(index))
                                    EXCEPT !.index = index, !.single = range.single,
                                           !.firstMask = range.firstMask,
                                           !.words = range.words,
                                           !.lastMask = range.lastMask])
    /\ live' = live \ {a}
    /\ UNCHANGED last

\* Registry::clearMaskRange called by freeRange: the fetch-and of a middle
\* word or of the last word
FreeRangeClear(th) ==
    /\ call.op = "registry"
    /\ call.threads[th].pc = "clearRange"
    /\ \E t \in {call.threads[th]} :
           /\ registryBecomes(IF (t.wordIndex + t.i) \in WordIndexes
                              THEN clearMask(theRegistry, t.wordIndex + t.i, maskAt(t))
                              ELSE theRegistry)
           /\ FreeRangeDone(th, t)
    /\ UNCHANGED <<live, last>>

\* the calls findFree, free, findFreeRange and freeRange of the threads
NextFindFreeRange ==
    \/ \E th \in FindFreeThreads : Cardinality(live) < MaxRangeLive /\ FindFreeCall(th)
    \/ \E th \in Threads : FindFreeLoad(th)
    \/ \E th \in Threads : \E fails \in BOOLEAN : FindFreeIncrement(th, fails)
    \/ \E th \in Threads : \E fails \in BOOLEAN : FindFreeSwap(th, fails)
    \/ \E th \in FindFreeThreads : \E a \in live : FreeCall(th, a)
    \/ \E th \in Threads : UpdateLoad(th)
    \/ \E th \in Threads : \E fails \in BOOLEAN : UpdateLower(th, fails)
    \/ \E th \in RangeThreads : \E count \in RangeCounts : \E ub \in UBOutcomes : FindFreeRangeCall(th, count, ub)
    \/ \E th \in Threads : FindFreeRangeLoad(th)
    \/ \E th \in Threads : RangeSetLoad(th)
    \/ \E th \in Threads : \E fails \in BOOLEAN : RangeSetSwap(th, fails)
    \/ \E th \in Threads : RangeRollback(th)
    \/ \E th \in RangeThreads : \E a \in live : \E ub \in UBOutcomes : FreeRangeCall(th, a, ub)
    \/ \E th \in Threads : FreeRangeClear(th)

SpecFindFreeRange == InitRegistry /\ [][NextFindFreeRange]_vars

\* C26: when findFreeRange races with the findFree and findFreeRange calls
\* of other threads, no bit is owned twice: the runs and bits held are
\* disjoint, and every bit of a run that findFreeRange returns was zero when
\* the call set it.
C26_RangeOwnedOnce ==
    /\ \A a \in live : \A b \in live : a # b => quantaOf(a) \cap quantaOf(b) = {}
    /\ (last.op = "findFreeRange" /\ last.ret # NOT_FOUND) => last.reclaimed = {}


\* C27: when conditionallySetMaskRange fails and rolls back, the rollback
\* changes only bits that this call has itself changed from zero to one: a
\* bit that was set before the call, or that another thread has set during
\* it, keeps its value.
C27_RollbackClearsOwnBits ==
    last.op = "rollback" => last.cleared \subseteq last.own


\* C28: freeRange(index, count) with index + count <= maximumIndex clears
\* the bits index .. index+count-1 and leaves every other bit of the registry
\* as it was.
C28_FreeRangeClearsItsRun ==
    (last.op = "freeRange" /\ last.index + last.count <= theRegistry.maximumIndex) =>
        \A k \in RangeIndexes :
            isSet(theRegistry, k) =
                (isSet(last.before, k) /\ ~(last.index <= k /\ k < last.index + last.count))

\* a run of count zero bits below maximumIndex starts at index i of registry r
freeRunAt(r, i, count) ==
    /\ i + count <= r.maximumIndex
    /\ \A k \in i .. (i + count - 1) : ~isSet(r, k)

\* C29: run alone, findFreeRange(n) returns NOT_FOUND only if the registry
\* has no run of n consecutive zero bits below maximumIndex; a run that ends
\* at the last bit, and the whole of an empty registry, can be claimed.
C29_NotFoundMeansNoRun ==
    (last.op = "findFreeRange" /\ last.ret = NOT_FOUND) =>
        ~ \E i \in RangeIndexes : freeRunAt(last.before, i, last.count)


\* C30: in every state in which no call on the registry is in progress,
\* whatever the interleaving of the calls that led to it, lowestIndex is at
\* most the index of the word that holds the lowest zero bit below
\* maximumIndex, when there is such a bit.
C30_LowestIndexAtMostFreeWord ==
    (\A th \in Threads : call.threads[th].pc = "idle") =>
        \A k \in RangeIndexes :
            ~isSet(theRegistry, k) => theRegistry.lowestIndex <= getWordIndex(k)


(***************************************************************************)
(* The partitions of a quantum allocator and the orders they serve.        *)
(***************************************************************************)
PartitionIndexes(t) == 0 .. (quantumAllocators[t].partitionCount - 1)

\* no allocation a caller holds lies in partition p of tier t
holdsNoLive(t, p) ==
    \A a \in live :
        ~ ( /\ partitionBase(quantumAllocators[t], p) <= a.address
            /\ a.address < partitionBase(quantumAllocators[t], p)
                               + quantumAllocators[t].partitionSize )

\* every partition slot of tier t is claimed, and one of its partitions
\* holds no allocation and serves another order than order
emptyPartitionOfOtherOrder(t, order) ==
    /\ \A p \in PartitionIndexes(t) : isSet(quantumAllocators[t].partitionRegistry, p)
    /\ \E p \in PartitionIndexes(t) :
           /\ holdsNoLive(t, p)
           /\ quantumAllocators[t].partitions[p].quantumSizeOrder # order

\* C31: when every partition slot of a tier is claimed and a partition of
\* the tier holds no allocation, with no call in progress, an allocate for an
\* order of the tier that the empty partition does not serve succeeds: it
\* returns a block, and a partition of the tier then serves the order asked
\* for.
C31_EmptyPartitionIsReused ==
    [][ ( /\ call = Idle /\ call' = Idle
          /\ last'.op = "allocate"
          /\ last'.size >= 1
          /\ tierOfOrder(sizeToOrder(roundUpPowerOf2(last'.size))) # NOT_FOUND
          /\ emptyPartitionOfOtherOrder(
                 tierOfOrder(sizeToOrder(roundUpPowerOf2(last'.size))),
                 sizeToOrder(roundUpPowerOf2(last'.size))) ) =>
            /\ last'.ret # nullptr
            /\ \E p \in PartitionIndexes(
                          tierOfOrder(sizeToOrder(roundUpPowerOf2(last'.size)))) :
                   quantumAllocators'[tierOfOrder(sizeToOrder(roundUpPowerOf2(last'.size)))]
                       .partitions[p].quantumSizeOrder
                     = sizeToOrder(roundUpPowerOf2(last'.size)) ]_vars


\* C32: in every reachable state, a partition index has its bit set in at
\* most one order registry of its quantum allocator, and a partition whose
\* bit is set in the registry of order index k is initialised with the
\* quantum order smallestSizeOrder + k.
C32_OneOrderPerPartition ==
    \A t \in Tiers : \A p \in PartitionIndexes(t) :
        /\ Cardinality({ k \in OrderIndexes :
                           isSet(quantumAllocators[t].orderRegistry[k], p) }) <= 1
        /\ \A k \in OrderIndexes :
               isSet(quantumAllocators[t].orderRegistry[k], p) =>
                   quantumAllocators[t].partitions[p].quantumSizeOrder
                       = quantumAllocators[t].smallestSizeOrder + k


(***************************************************************************)
(* QuantumAllocator::getFreePartition run by several threads.  The threads *)
(* call qba_allocate and qba_deallocate for the sizes of the first quantum *)
(* allocator.  A step is an access to the roster or to a registry of the   *)
(* quantum allocator; Partition::allocate, Partition::deallocate,          *)
(* Registry::isEmpty and the constructor of Partition are each run in one  *)
(* step.  call.threads holds the locals of a thread: the aligned size, the *)
(* order index, the partition p it has in hand, the position index of the  *)
(* PartitionIterator, partitionIndex of the loop of freeUpPartition and    *)
(* what offlinePartition returned.                                         *)
(***************************************************************************)
\* the most allocations held when qba_allocate is entered
MaxFreeUpLive == 2

\* the sizes of the first quantum allocator
FreeUpSizes ==
    { orderToSize(k) : k \in tierSmallestSizeOrder(0) .. (tierSmallestSizeOrder(1) - 1) }

FreeUpThreadIdle ==
    [pc |-> "idle", size |-> 0, orderIndex |-> 0, p |-> 0, index |-> 0, partitionIndex |-> 0, cleared |-> FALSE]

InitFreeUp ==
    /\ secure = Secure
    /\ roster = createDirector(secure).roster
    /\ quantumAllocators = createDirector(secure).quantumAllocators
    /\ slabAllocator = createDirector(secure).slabAllocator
    /\ mapped = createDirector(secure).mapped
    /\ reference = createDirector(secure).reference
    /\ nonzero = createDirector(secure).nonzero
    /\ live = {}
    /\ last = Call("create", 0, nullptr, nullptr, {})
    /\ call = [Idle EXCEPT !.op = "freeUp",
                           !.threads = [th \in Threads |-> FreeUpThreadIdle]]

\* the lowest id no allocation held uses
FreeUpFreeId ==
    CHOOSE i \in 1 .. (MaxFreeUpLive + Cardinality(Threads) + 1) :
        /\ \A a \in live : a.id # i
        /\ \A j \in 1 .. (i - 1) : \E a \in live : a.id = j

\* the allocations held that lie in partition p of the first quantum
\* allocator
liveIn(p) ==
    { a \in live :
        /\ partitionBase(quantumAllocators[0], p) <= a.address
        /\ a.address < partitionBase(quantumAllocators[0], p)
                           + quantumAllocators[0].partitionSize }

\* qba_allocate returns
FreeUpReturn(th, ret) ==
    /\ call' = [call EXCEPT !.threads[th] = FreeUpThreadIdle]
    /\ last' = Call("allocate", call.threads[th].size, nullptr, ret, {})
    /\ live' = IF ret = nullptr THEN live
               ELSE live \cup {Allocation(FreeUpFreeId, ret, call.threads[th].size, th)}

\* Director::allocate is entered: the load of the roster entry of the order
FreeUpAllocateCall(th, size) ==
    /\ call.op = "freeUp"
    /\ call.threads[th].pc = "idle"
    /\ Cardinality(live) < MaxFreeUpLive
    /\ \E allocator \in {findAllocatorBySize(D, roundUpPowerOf2(size))} :
           call' = [call EXCEPT !.threads[th] =
                       [FreeUpThreadIdle EXCEPT
                           !.pc = IF allocator.id = PartitionID THEN "partition" ELSE "next",
                           !.size = roundUpPowerOf2(size),
                           !.orderIndex = getOrderIndex(quantumAllocators[0],
                                                        roundUpPowerOf2(size)),
                           !.p = allocator.p]]
    /\ UNCHANGED <<secure, roster, quantumAllocators, slabAllocator, mapped,
                   reference, nonzero, live, last>>

\* Partition::allocate on the partition in hand: the one of the roster
\* (Director::allocate) or the one the iterator gave (QuantumAllocator::
\* allocate)
FreeUpPartitionAllocate(th) ==
    /\ call.op = "freeUp"
    /\ call.threads[th].pc \in {"partition", "iterated"}
    /\ \E got \in {Partition_allocate(D, 0, call.threads[th].p)} :
           /\ Becomes(got.d)
           /\ IF got.ret # nullptr
              THEN FreeUpReturn(th, got.ret)
              ELSE /\ call' = [call EXCEPT !.threads[th].pc = "next"]
                   /\ UNCHANGED <<live, last>>

\* PartitionIterator::next: the next partition of the order registry, or
\* getFreePartition
FreeUpNext(th) ==
    /\ call.op = "freeUp"
    /\ call.threads[th].pc = "next"
    /\ \E partitionIndex \in
           {nextSet(quantumAllocators[0].orderRegistry[call.threads[th].orderIndex],
                    call.threads[th].index)} :
           call' = [call EXCEPT !.threads[th] =
                       IF partitionIndex # NOT_FOUND
                       THEN [@ EXCEPT !.pc = "iterated", !.p = partitionIndex,
                                      !.index = partitionIndex + 1]
                       ELSE [@ EXCEPT !.pc = "allocatePartition"]]
    /\ UNCHANGED <<secure, roster, quantumAllocators, slabAllocator, mapped,
                   reference, nonzero, live, last>>

\* QuantumAllocator::newOrderPartition: allocatePartition
FreeUpAllocatePartition(th) ==
    /\ call.op = "freeUp"
    /\ call.threads[th].pc = "allocatePartition"
    /\ \E got \in {allocatePartition(D, 0)} :
           /\ Becomes(got.d)
           /\ call' = [call EXCEPT !.threads[th] =
                          IF got.ret # NOT_FOUND
                          THEN [@ EXCEPT !.pc = "newPartition", !.p = got.ret]
                          ELSE [@ EXCEPT !.pc = "freeUp",
                                         !.partitionIndex =
                                             quantumAllocators[0].partitionCount - 1]]
    /\ UNCHANGED <<live, last>>

\* QuantumAllocator::freeUpPartition, the head of the loop and the first
\* isEmpty
FreeUpIsEmpty(th) ==
    /\ call.op = "freeUp"
    /\ call.threads[th].pc = "freeUp"
    /\ UNCHANGED <<secure, roster, quantumAllocators, slabAllocator, mapped,
                   reference, nonzero>>
    /\ IF call.threads[th].partitionIndex < 0
       THEN FreeUpReturn(th, nullptr)
       ELSE /\ call' = [call EXCEPT !.threads[th] =
                   IF Partition_isEmpty(quantumAllocators[0]
                                            .partitions[call.threads[th].partitionIndex])
                   THEN [@ EXCEPT !.pc = "offline"]
                   ELSE [@ EXCEPT !.partitionIndex = @ - 1]]
            /\ UNCHANGED <<live, last>>

\* QuantumAllocator::offlinePartition: Registry::clear of the partition's bit
\* in the registry of the order asked for
FreeUpOffline(th) ==
    /\ call.op = "freeUp"
    /\ call.threads[th].pc = "offline"
    /\ quantumAllocators' =
           [quantumAllocators EXCEPT ![0].orderRegistry[call.threads[th].orderIndex] =
               clear(@, call.threads[th].partitionIndex)]
    /\ call' = [call EXCEPT
                   !.threads[th].pc = "offlineRoster",
                   !.threads[th].cleared =
                       isSet(quantumAllocators[0].orderRegistry[call.threads[th].orderIndex],
                             call.threads[th].partitionIndex)]
    /\ UNCHANGED <<secure, roster, slabAllocator, mapped, reference, nonzero, live, last>>

\* QuantumAllocator::offlinePartition: the store of the quantum allocator in
\* the roster
FreeUpOfflineRoster(th) ==
    /\ call.op = "freeUp"
    /\ call.threads[th].pc = "offlineRoster"
    /\ roster' = [roster EXCEPT
                     ![quantumAllocators[0].smallestSizeOrder + call.threads[th].orderIndex] =
                         QuantumAllocatorRef(0)]
    /\ call' = [call EXCEPT !.threads[th].pc = "recheck"]
    /\ UNCHANGED <<secure, quantumAllocators, slabAllocator, mapped, reference, nonzero,
                   live, last>>

\* QuantumAllocator::freeUpPartition: the test of what offlinePartition
\* returned and the second isEmpty
FreeUpRecheck(th) ==
    /\ call.op = "freeUp"
    /\ call.threads[th].pc = "recheck"
    /\ call' = [call EXCEPT !.threads[th] =
                   IF ~call.threads[th].cleared \/
                      ~Partition_isEmpty(quantumAllocators[0]
                                             .partitions[call.threads[th].partitionIndex])
                   THEN [@ EXCEPT !.pc = "reonline"]
                   ELSE [@ EXCEPT !.pc = "newPartition",
                                  !.p = call.threads[th].partitionIndex]]
    /\ UNCHANGED <<secure, roster, quantumAllocators, slabAllocator, mapped,
                   reference, nonzero, live, last>>

\* QuantumAllocator::freeUpPartition: onlinePartition of the partition it
\* does not take, and the next turn of the loop
FreeUpReonline(th) ==
    /\ call.op = "freeUp"
    /\ call.threads[th].pc = "reonline"
    /\ Becomes(onlinePartition(D, 0, call.threads[th].partitionIndex,
                               call.threads[th].orderIndex))
    /\ call' = [call EXCEPT !.threads[th].pc = "freeUp",
                            !.threads[th].partitionIndex = @ - 1]
    /\ UNCHANGED <<live, last>>

\* QuantumAllocator::newPartition: the constructor of Partition runs on the
\* slot.  last tells which allocations held lie in the partition.
FreeUpNewPartition(th) ==
    /\ call.op = "freeUp"
    /\ call.threads[th].pc = "newPartition"
    /\ Becomes(newPartition(D, 0, call.threads[th].p, call.threads[th].size))
    /\ call' = [call EXCEPT !.threads[th].pc = "online"]
    /\ last' = [op |-> "newPartition", by |-> th, p |-> call.threads[th].p, erased |-> liveIn(call.threads[th].p)]
    /\ UNCHANGED live

\* QuantumAllocator::addToOrder: onlinePartition
FreeUpOnline(th) ==
    /\ call.op = "freeUp"
    /\ call.threads[th].pc = "online"
    /\ Becomes(onlinePartition(D, 0, call.threads[th].p, call.threads[th].orderIndex))
    /\ call' = [call EXCEPT !.threads[th].pc = "onlineRoster"]
    /\ UNCHANGED <<live, last>>

\* QuantumAllocator::addToOrder: the store of the partition in the roster;
\* the iterator returns the partition
FreeUpOnlineRoster(th) ==
    /\ call.op = "freeUp"
    /\ call.threads[th].pc = "onlineRoster"
    /\ roster' = [roster EXCEPT
                     ![quantumAllocators[0].smallestSizeOrder + call.threads[th].orderIndex] =
                         PartitionRef(0, call.threads[th].p)]
    /\ call' = [call EXCEPT !.threads[th].pc = "iterated"]
    /\ UNCHANGED <<secure, quantumAllocators, slabAllocator, mapped, reference, nonzero,
                   live, last>>

\* qba_deallocate of a block held
FreeUpDeallocate(th, a) ==
    /\ call.op = "freeUp"
    /\ call.threads[th].pc = "idle"
    /\ Becomes(Director_deallocate(D, a.address))
    /\ live' = live \ {a}
    /\ last' = Call("deallocate", 0, a.address, nullptr, {})
    /\ UNCHANGED call

NextFreeUp ==
    \/ \E th \in Threads : \E size \in FreeUpSizes : FreeUpAllocateCall(th, size)
    \/ \E th \in Threads : FreeUpPartitionAllocate(th)
    \/ \E th \in Threads : FreeUpNext(th)
    \/ \E th \in Threads : FreeUpAllocatePartition(th)
    \/ \E th \in Threads : FreeUpIsEmpty(th)
    \/ \E th \in Threads : FreeUpOffline(th)
    \/ \E th \in Threads : FreeUpOfflineRoster(th)
    \/ \E th \in Threads : FreeUpRecheck(th)
    \/ \E th \in Threads : FreeUpReonline(th)
    \/ \E th \in Threads : FreeUpNewPartition(th)
    \/ \E th \in Threads : FreeUpOnline(th)
    \/ \E th \in Threads : FreeUpOnlineRoster(th)
    \/ \E th \in Threads : \E a \in live : FreeUpDeallocate(th, a)

SpecFreeUp == InitFreeUp /\ [][NextFreeUp]_vars

\* C33: when freeUpPartition initialises a partition again while other
\* threads allocate, no block taken from the partition is held at that
\* moment: the initialisation erases the registry bit of no block a caller
\* holds.
C33_ReinitialisationErasesNoHeldBlock ==
    last.op = "newPartition" => last.erased = {}


\* partition p of the first quantum allocator can be reached by a thread:
\* its bit is set in an order registry or the roster holds it
reachablePartition(p) ==
    \/ \E k \in OrderIndexes : isSet(quantumAllocators[0].orderRegistry[k], p)
    \/ \E order \in DOMAIN roster : roster[order] = PartitionRef(0, p)

\* C34: a partition can be reached through an order registry or the roster
\* only after its initialisation is complete: while a thread is about to run
\* or runs the constructor of Partition on a slot, for the first time or
\* again, no order registry holds the bit of the slot and no roster entry
\* holds the partition.
C34_ReachableOnlyWhenInitialised ==
    \A th \in Threads :
        (call.op = "freeUp" /\ call.threads[th].pc = "newPartition") =>
            ~reachablePartition(call.threads[th].p)


\* the quantum allocator whose range of orders covers order, or NOT_FOUND
coveringQuantumAllocator(order) ==
    IF \E t \in Tiers : /\ quantumAllocators[t].smallestSizeOrder <= order
                        /\ order <= quantumAllocators[t].largestSizeOrder
    THEN CHOOSE t \in Tiers : /\ quantumAllocators[t].smallestSizeOrder <= order
                              /\ order <= quantumAllocators[t].largestSizeOrder
    ELSE NOT_FOUND

MaxIterateLive == 3

\* the threads that call allocateBulk
IterateThreads == {"t1"}

\* the lengths of the buffer handed to allocateBulk
IterateCounts == 1 .. (theRegistry.maximumIndex - 1)

IterateThread(pc, count, wordIndex) ==
    [pc |-> pc, wordIndex |-> wordIndex, value |-> 0, lowestFreeIndex |-> 0, count |-> count, addresses |-> <<>>, done |-> FALSE, raced |-> FALSE, cleared |-> FALSE]

\* the ids of the allocations a call of allocateBulk adds
IterateId(index) == MaxRegistryLive + Cardinality(Threads) + 1 + index

\* AllocateBulkIterator::iterate, the loop over the free bits of the
\* snapshot value of a word, with foundFree: addresses are the indexes handed
\* out, done tells that foundFree returned false
RECURSIVE iterateWord(_, _, _, _, _)
iterateWord(r, wordIndex, value, count, addresses) ==
    IF value = ALL_ONES
    THEN [value |-> value, addresses |-> addresses, done |-> FALSE]
    ELSE IF r.maximumIndex
              <= getIndex(wordIndex, BITS_PER_WORD - 1 - clz(lowestZeroBit(value)))
    THEN [value |-> value, addresses |-> addresses, done |-> FALSE]
    ELSE IF Len(addresses) < count
    THEN iterateWord(r, wordIndex, bitOr(value, lowestZeroBit(value)), count,
                     Append(addresses,
                            getIndex(wordIndex,
                                     BITS_PER_WORD - 1 - clz(lowestZeroBit(value)))))
    ELSE [value |-> value, addresses |-> addresses, done |-> TRUE]

\* Partition::allocateBulk returns: the caller holds the blocks of the indexes
\* in the buffer
IterateReturn(th, t) ==
    /\ call' = [call EXCEPT !.threads[th] = RegistryThreadIdle]
    /\ live' = live \cup { Allocation(IterateId(t.addresses[i]),
                                      quantumAddress(t.addresses[i]),
                                      quantumSize(thePartition), th) :
                           i \in 1 .. Len(t.addresses) }
    /\ last' = [op |-> "allocateBulk", count |-> t.count, ret |-> Len(t.addresses),
                fresh |-> /\ \A i \in 1 .. Len(t.addresses) :
                                 \A j \in 1 .. Len(t.addresses) :
                                     i # j => t.addresses[i] # t.addresses[j]
                          /\ \A i \in 1 .. Len(t.addresses) : \A a \in live :
                                 a.address # quantumAddress(t.addresses[i]),
                raced |-> t.raced, cleared |-> t.cleared]

\* the thread goes on to the next word, or returns
IterateNextWord(th, t) ==
    IF t.done
    THEN IterateReturn(th, t)
    ELSE /\ call' = [call EXCEPT !.threads[th] =
                        [t EXCEPT !.pc = "iterate", !.wordIndex = @ + 1]]
         /\ UNCHANGED <<live, last>>

\* Partition::allocateBulk is entered: the load of _lowestIndex
IterateCall(th, count) ==
    /\ call.op = "registry"
    /\ call.threads[th].pc = "idle"
    /\ Cardinality(live) < MaxIterateLive
    /\ call' = [call EXCEPT !.threads[th] =
                   IterateThread("iterate", count, theRegistry.lowestIndex)]
    /\ UNCHANGED <<secure, roster, quantumAllocators, slabAllocator, mapped,
                   reference, nonzero, live, last>>

\* AllocateBulkIterator::iterate, the head of the loop over the words: the
\* load of the word
IterateLoad(th) ==
    /\ call.op = "registry"
    /\ call.threads[th].pc = "iterate"
    /\ UNCHANGED <<secure, roster, quantumAllocators, slabAllocator, mapped,
                   reference, nonzero>>
    /\ IF ~(call.threads[th].wordIndex < theRegistry.maximumWordIndex)
       THEN IterateReturn(th, call.threads[th])
       ELSE /\ call' = [call EXCEPT !.threads[th] =
                   IF getBits(theRegistry, call.threads[th].wordIndex) = ALL_ONES
                   THEN [@ EXCEPT !.wordIndex = @ + 1]
                   ELSE [@ EXCEPT !.pc = "preset",
                                  !.value = getBits(theRegistry,
                                                    call.threads[th].wordIndex)]]
            /\ UNCHANGED <<live, last>>

\* the fetch-and that gives back the bits not handed out, left out
IterateClear_keeps(th) ==
    /\ call.op = "registry"
    /\ call.threads[th].pc = "clear"
    /\ UNCHANGED <<secure, roster, quantumAllocators, slabAllocator, mapped,
                   reference, nonzero>>
    /\ IterateNextWord(th, call.threads[th])

\* AllocateBulkIterator::iterate: conditionallySetMask(wordIndex, value,
\* ALL_ONES), the compare-exchange that sets all bits of the word.  When it
\* succeeds the free bits of value are handed to foundFree; when it fails
\* value is the word as the exchange found it.
IteratePreset(th, fails) ==
    /\ call.op = "registry"
    /\ call.threads[th].pc = "preset"
    /\ \E t \in {call.threads[th]} :
       \E got \in {swapBits(theRegistry, t.wordIndex, t.value,
                            bitOr(t.value, ALL_ONES), fails)} :
           /\ registryBecomes(got.reg)
           /\ IF got.ok
              THEN \E w \in {iterateWord(theRegistry, t.wordIndex, t.value, t.count,
                                         t.addresses)} :
                     /\ call' = [call EXCEPT !.threads[th] =
                                    [t EXCEPT !.pc = "clear", !.value = w.value,
                                              !.addresses = w.addresses,
                                              !.done = w.done]]
                     /\ UNCHANGED <<live, last>>
              ELSE IF got.existing = ALL_ONES
              THEN IterateNextWord(th, [t EXCEPT !.value = got.existing])
              ELSE /\ call' = [call EXCEPT !.threads[th].value = got.existing]
                   /\ UNCHANGED <<live, last>>

\* AllocateBulkIterator::iterate: clearMask(wordIndex, ~value), the fetch-and
\* that clears the bits set and not handed out, after foundFree returned
\* false or at the end of the word
IterateClear(th) ==
    /\ call.op = "registry"
    /\ call.threads[th].pc = "clear"
    /\ \E t \in {call.threads[th]} :
           /\ registryBecomes(IF t.value # ALL_ONES
                              THEN clearMask(theRegistry, t.wordIndex, bitNot(t.value))
                              ELSE theRegistry)
           /\ IterateNextWord(th,
                  [t EXCEPT !.cleared = @ \/ t.value # ALL_ONES,
                            !.raced = @ \/ getBits(theRegistry, t.wordIndex) # ALL_ONES])

NextIterate ==
    \/ \E th \in FindFreeThreads : Cardinality(live) < MaxIterateLive /\ FindFreeCall(th)
    \/ \E th \in Threads : FindFreeLoad(th)
    \/ \E th \in Threads : \E fails \in BOOLEAN : FindFreeIncrement(th, fails)
    \/ \E th \in Threads : \E fails \in BOOLEAN : FindFreeSwap(th, fails)
    \/ \E th \in Threads : \E a \in live : FreeCall(th, a)
    \/ \E th \in Threads : UpdateLoad(th)
    \/ \E th \in Threads : \E fails \in BOOLEAN : UpdateLower(th, fails)
    \/ \E th \in IterateThreads : \E count \in IterateCounts : IterateCall(th, count)
    \/ \E th \in Threads : IterateLoad(th)
    \/ \E th \in Threads : \E fails \in BOOLEAN : IteratePreset(th, fails)
    \/ \E th \in Threads : IterateClear(th)

SpecIterate == InitRegistry /\ [][NextIterate]_vars

\* C36: Partition::allocateBulk(count, addresses) returns at most count
\* addresses, pairwise distinct and held by no one when the call took them;
\* whenever no allocateBulk is under way the bits set in the registry are
\* those of the blocks held, so every bit a call set and did not hand out is
\* clear again and the bits the call has set are those of the addresses it
\* returned, also when another thread frees bits of the words during the
\* call.
C36_BulkSetsWhatItReturns ==
    /\ \A a \in live : \A b \in live : a # b => a.address # b.address
    /\ last.op = "allocateBulk" => (last.ret <= last.count /\ last.fresh)
    /\ (\A th \in IterateThreads : call.threads[th].pc \notin {"iterate", "preset", "clear"}) =>
           { i \in 0 .. (theRegistry.maximumIndex - 1) : isSet(theRegistry, i) }
               = { quantumIndex(thePartition, a.address) : a \in live }

\* allocateBulk returned a block after it cleared a bit it had set and not
\* handed out, and another thread freed a block of the word in between
C36_BulkRacedWithFree ==
    /\ last.op = "allocateBulk"
    /\ last.ret >= 1
    /\ last.cleared
    /\ last.raced


\* C37: after any sequence of allocate, allocate_count, deallocate and
\* deallocate_count, every slot of the slab allocator whose Slab record has a
\* size other than zero describes a region that is reserved from the
\* operating system, so that no later slab allocation returns an address of
\* a released region and destroy releases every region once.
C37_SlabRecordIsReserved ==
    \A i \in 0 .. (slabAllocator.maxCount - 1) :
        slabAllocator.slabs[i].size # 0 =>
            unitsOf(slabAllocator.slabs[i].base, slabAllocator.slabs[i].size)
                \subseteq mapped


(***************************************************************************)
(* Director::create in shared mode (qba.cpp 5226-5406), called by two      *)
(* processes with the same link name, address and sizes.  The variables    *)
(* hold the memory of the shared object: zero until a constructor of       *)
(* createDirector has run on it.  call.link tells what shm_open and        *)
(* ftruncate have made of the link, call.threads what each process is at   *)
(* and what its create returned.                                           *)
(***************************************************************************)
\* a roster never constructed: every entry a null pointer, written as the
\* reference to no allocator
ZeroRoster == [order \in Orders |-> [id |-> NOT_FOUND, t |-> 0, p |-> 0]]

\* the zero filled memory of a QuantumAllocator never constructed
ZeroQuantumAllocator == QuantumAllocator(0, 0, 0, 0, nullptr, 0, nullptr)

\* the slab allocator of a shared Director: create asserts maxSlabCount = 0
SharedSlabAllocator(maxCount) ==
    SlabAllocator(maxCount, SideDataSize, sideDatasOf(SideDataSize, MAX_QUANTUM_ALLOCATORS))

CreateThread(pc) == [pc |-> pc, creating |-> FALSE, i |-> 0, ret |-> FALSE]

InitShared ==
    /\ secure \in BOOLEAN
    /\ roster = ZeroRoster
    /\ quantumAllocators = [t \in Tiers |-> ZeroQuantumAllocator]
    /\ slabAllocator = SlabAllocator(0, 0, nullptr)
    /\ mapped = {}
    /\ reference = nullptr
    /\ nonzero = {}
    /\ live = {}
    /\ last = [op |-> "none"]
    /\ call = [op |-> "create", link |-> "none",
               threads |-> [th \in Threads |-> CreateThread("idle")]]

\* create returns to the process: ret tells whether it returns a Director
CreateReturn(th, creating, ret) ==
    /\ call' = [call EXCEPT !.threads[th] =
                   [CreateThread("done") EXCEPT !.creating = creating, !.ret = ret]]
    /\ last' = [op |-> "create", by |-> th, creating |-> creating, ret |-> ret]

\* shm_open(linkName, O_EXCL | O_CREAT | O_RDWR, 0600): creates the link, or
\* fails where the link exists
CreateShmOpen(th) ==
    /\ call.op = "create"
    /\ call.threads[th].pc = "idle"
    /\ call' = IF call.link = "none"
               THEN [call EXCEPT !.link = "created",
                                 !.threads[th].pc = "ftruncate",
                                 !.threads[th].creating = TRUE]
               ELSE [call EXCEPT !.threads[th].pc = "open"]
    /\ UNCHANGED <<secure, roster, quantumAllocators, slabAllocator, mapped,
                   reference, nonzero, live, last>>

\* ftruncate(fd, size) of the link just created
CreateTruncate(th) ==
    /\ call.op = "create"
    /\ call.threads[th].pc = "ftruncate"
    /\ call' = [call EXCEPT !.link = "sized", !.threads[th].pc = "reserve"]
    /\ UNCHANGED <<secure, roster, quantumAllocators, slabAllocator, mapped,
                   reference, nonzero, live, last>>

\* System::reserve(size, address, M, fd): create returns nullptr where it
\* fails
CreateReserve(th, ok) ==
    /\ call.op = "create"
    /\ call.threads[th].pc = "reserve"
    /\ UNCHANGED <<secure, roster, quantumAllocators, slabAllocator, mapped,
                   reference, nonzero, live>>
    /\ IF ok
       THEN /\ call' = [call EXCEPT !.threads[th].pc = "roster"]
            /\ UNCHANGED last
       ELSE CreateReturn(th, TRUE, FALSE)

\* createDirector with creating set: new(roster) AllocatorRoster(), which
\* stores nothing
CreateRoster(th) ==
    /\ call.op = "create"
    /\ call.threads[th].pc = "roster"
    /\ call' = [call EXCEPT !.threads[th].pc = "quantumAllocator"]
    /\ UNCHANGED <<secure, roster, quantumAllocators, slabAllocator, mapped,
                   reference, nonzero, live, last>>

\* createDirector with creating set: the constructor of quantum allocator i
CreateQuantumAllocator(th) ==
    /\ call.op = "create"
    /\ call.threads[th].pc = "quantumAllocator"
    /\ quantumAllocators' =
           [quantumAllocators EXCEPT ![call.threads[th].i] =
               createDirector(secure).quantumAllocators[call.threads[th].i]]
    /\ call' = [call EXCEPT !.threads[th] =
                   IF call.threads[th].i + 1 < MAX_QUANTUM_ALLOCATORS
                   THEN [@ EXCEPT !.i = @ + 1]
                   ELSE [@ EXCEPT !.pc = "slabAllocator"]]
    /\ UNCHANGED <<secure, roster, slabAllocator, mapped, reference, nonzero, live, last>>

\* createDirector with creating set: the constructor of the slab allocator
CreateSlabAllocator(th) ==
    /\ call.op = "create"
    /\ call.threads[th].pc = "slabAllocator"
    /\ slabAllocator' = SharedSlabAllocator(0)
    /\ call' = [call EXCEPT !.threads[th].pc = "director"]
    /\ UNCHANGED <<secure, roster, quantumAllocators, mapped, reference, nonzero, live, last>>

\* createDirector with creating set: Director::Director fills out the roster;
\* create returns the Director
CreateDirector(th) ==
    /\ call.op = "create"
    /\ call.threads[th].pc = "director"
    /\ roster' = DirectorRoster
    /\ CreateReturn(th, TRUE, TRUE)
    /\ UNCHANGED <<secure, quantumAllocators, slabAllocator, mapped, reference, nonzero, live>>

\* shm_open(linkName, O_RDWR, 0600) of the link that exists
CreateOpen(th) ==
    /\ call.op = "create"
    /\ call.threads[th].pc = "open"
    /\ call' = [call EXCEPT !.threads[th].pc = "mapShared"]
    /\ UNCHANGED <<secure, roster, quantumAllocators, slabAllocator, mapped,
                   reference, nonzero, live, last>>

\* System::mapShared(size, address, fd): create returns nullptr where it
\* fails
CreateMapShared(th, ok) ==
    /\ call.op = "create"
    /\ call.threads[th].pc = "mapShared"
    /\ UNCHANGED <<secure, roster, quantumAllocators, slabAllocator, mapped,
                   reference, nonzero, live>>
    /\ IF ok
       THEN /\ call' = [call EXCEPT !.threads[th].pc = "overlay"]
            /\ UNCHANGED last
       ELSE CreateReturn(th, FALSE, FALSE)

\* createDirector with creating clear: the addresses of the structures are
\* computed from the arena, no constructor runs; create returns the address
\* of the Director
CreateOverlay(th) ==
    /\ call.op = "create"
    /\ call.threads[th].pc = "overlay"
    /\ CreateReturn(th, FALSE, TRUE)
    /\ UNCHANGED <<secure, roster, quantumAllocators, slabAllocator, mapped,
                   reference, nonzero, live>>

NextShared ==
    \/ \E th \in Threads : CreateShmOpen(th)
    \/ \E th \in Threads : CreateTruncate(th)
    \/ \E th \in Threads : \E ok \in BOOLEAN : CreateReserve(th, ok)
    \/ \E th \in Threads : CreateRoster(th)
    \/ \E th \in Threads : CreateQuantumAllocator(th)
    \/ \E th \in Threads : CreateSlabAllocator(th)
    \/ \E th \in Threads : CreateDirector(th)
    \/ \E th \in Threads : CreateOpen(th)
    \/ \E th \in Threads : \E ok \in BOOLEAN : CreateMapShared(th, ok)
    \/ \E th \in Threads : CreateOverlay(th)

SpecShared == InitShared /\ [][NextShared]_vars

\* the constructors of createDirector have all run on the shared memory
constructed ==
    /\ roster = DirectorRoster
    /\ \A t \in Tiers :
           quantumAllocators[t] = createDirector(secure).quantumAllocators[t]
    /\ slabAllocator = SharedSlabAllocator(0)

\* C38: in shared mode, when a process calls create with the name of a link
\* that another process has created, the Director it is given consists of
\* structures the first process has finished constructing (roster, quantum
\* allocators, slab allocator, Director).
C38_OpenedDirectorIsConstructed ==
    \A th \in Threads :
        ( /\ call.op = "create"
          /\ call.threads[th].pc = "done"
          /\ ~call.threads[th].creating
          /\ call.threads[th].ret ) => constructed


(***************************************************************************)
(* Progress of Registry::findFree.  The threads call findFree and free as  *)
(* above.  A thread that is inside a call takes its next step in the end   *)
(* (weak fairness of the steps inside calls; entering a call is up to the  *)
(* caller), and compare_exchange_weak fails spuriously finitely often.     *)
(***************************************************************************)
\* the most indexes held when findFree is entered
MaxFairLive == 3

\* the thread is inside findFree
pendingFindFree(th) == call.threads[th].pc \in {"findFree", "increment", "swap"}

\* a step of the thread inside a call of findFree or free
ThreadStep(th) ==
    \/ FindFreeLoad(th)
    \/ \E fails \in BOOLEAN : FindFreeIncrement(th, fails)
    \/ \E fails \in BOOLEAN : FindFreeSwap(th, fails)
    \/ UpdateLoad(th)
    \/ \E fails \in BOOLEAN : UpdateLower(th, fails)

\* a compare-exchange that fails although the atomic holds the expected value
SpuriousFailure ==
    \E th \in Threads :
        \/ /\ call.threads[th].pc = "swap"
           /\ getBits(theRegistry, call.threads[th].wordIndex) = call.threads[th].value
           /\ FindFreeSwap(th, TRUE)
        \/ /\ call.threads[th].pc = "increment"
           /\ theRegistry.lowestIndex = call.threads[th].wordIndex
           /\ FindFreeIncrement(th, TRUE)
        \/ /\ call.threads[th].pc = "lower"
           /\ theRegistry.lowestIndex = call.threads[th].lowestFreeIndex
           /\ call.threads[th].lowestFreeIndex > call.threads[th].wordIndex
           /\ UpdateLower(th, TRUE)

\* a call of findFree returns
FindFreeReturns ==
    \E th \in Threads : pendingFindFree(th) /\ call'.threads[th].pc = "idle"

NextFindFreeFair ==
    \/ \E th \in Threads : Cardinality(live) < MaxFairLive /\ FindFreeCall(th)
    \/ \E th \in Threads : FindFreeLoad(th)
    \/ \E th \in Threads : \E fails \in BOOLEAN : FindFreeIncrement(th, fails)
    \/ \E th \in Threads : \E fails \in BOOLEAN : FindFreeSwap(th, fails)
    \/ \E th \in Threads : \E a \in live : FreeCall(th, a)
    \/ \E th \in Threads : UpdateLoad(th)
    \/ \E th \in Threads : \E fails \in BOOLEAN : UpdateLower(th, fails)

SpecFindFreeFair ==
    /\ InitRegistry
    /\ [][NextFindFreeFair]_vars
    /\ \A th \in Threads : WF_vars(ThreadStep(th))
    /\ <>[][~SpuriousFailure]_vars

NextFindFreeAlone ==
    \/ \E th \in FindFreeThreads : FindFreeCall(th)
    \/ \E th \in FindFreeThreads : FindFreeLoad(th)
    \/ \E th \in FindFreeThreads : FindFreeIncrement(th, FALSE)
    \/ \E th \in FindFreeThreads : FindFreeSwap(th, FALSE)
    \/ \E th \in FindFreeThreads : \E a \in live : FreeCall(th, a)
    \/ \E th \in FindFreeThreads : UpdateLoad(th)
    \/ \E th \in FindFreeThreads : UpdateLower(th, FALSE)

SpecFindFreeAlone == InitRegistry /\ [][NextFindFreeAlone]_vars

\* a findFree that runs alone reads every word at most once: its word index
\* is _lowestIndex, every turn that finds a full word moves on to the next
\* word, and the compare-exchange of a word that has a free bit ends the call
FindFreeAloneAdvances ==
    [][ \A th \in FindFreeThreads :
          /\ pendingFindFree(th) => call.threads[th].wordIndex = theRegistry.lowestIndex
          /\ (call.threads[th].pc = "increment" /\ call'.threads[th].pc # "increment") =>
                 call'.threads[th].wordIndex = call.threads[th].wordIndex + 1
          /\ (call.threads[th].pc = "swap" /\ call'.threads[th].pc # "swap") =>
                 call'.threads[th].pc = "idle" ]_vars


(***************************************************************************)
(* FitSize as a function of its arguments: the sizes from 1 to MaxFitSize  *)
(* and the degrees from 1 to MAX_FIT_DEGREE.                               *)
(***************************************************************************)
\* the largest size handed to FitSize
MaxFitSize == 300

FitSizeInput(size, degree) == [op |-> "input", size |-> size, degree |-> degree]

InitFitSize ==
    /\ secure = Secure
    /\ roster = createDirector(secure).roster
    /\ quantumAllocators = createDirector(secure).quantumAllocators
    /\ slabAllocator = createDirector(secure).slabAllocator
    /\ mapped = createDirector(secure).mapped
    /\ reference = createDirector(secure).reference
    /\ nonzero = createDirector(secure).nonzero
    /\ live = {}
    /\ call = Idle
    /\ last \in { FitSizeInput(size, degree) :
                    size \in 1 .. MaxFitSize, degree \in 1 .. MAX_FIT_DEGREE }

\* FitSize fitSize(size, degree): last holds size() and count()
FitSizeApply ==
    /\ last.op = "input"
    /\ last' = [op |-> "FitSize", size |-> last.size, degree |-> last.degree,
                blockSize |-> FitSize(last.size, last.degree).size,
                count |-> FitSize(last.size, last.degree).count]
    /\ UNCHANGED <<secure, roster, quantumAllocators, slabAllocator, mapped,
                   reference, nonzero, live, call>>

NextFitSize == FitSizeApply

SpecFitSize == InitFitSize /\ [][NextFitSize]_vars

\* the lowest order FitSize uses for a size and a degree
lowOrderOf(size, degree) ==
    IF sizeToOrder(size) - degree < SMALLEST_SIZE_ORDER
    THEN SMALLEST_SIZE_ORDER
    ELSE sizeToOrder(size) - degree


\* C40: for every size from 1 to MaxFitSize and every degree from 1 to
\* MAX_FIT_DEGREE, FitSize gives a block size that is a power of two of at
\* least 8 bytes and a count of at least one, such that count blocks hold
\* the size, take no more than the power of two the size rounds up to, and
\* exceed the size by less than two to the lowest order, the larger of
\* SMALLEST_SIZE_ORDER and the order of the size less the degree.
C40_FitSizeBounds ==
    last.op = "FitSize" =>
        /\ isPowerOf2(last.blockSize)
        /\ last.blockSize >= orderToSize(SMALLEST_SIZE_ORDER)
        /\ last.count >= 1
        /\ last.count * last.blockSize >= last.size
        /\ last.count * last.blockSize <= orderToSize(sizeToOrder(last.size))
        /\ last.count * last.blockSize - last.size
               < orderToSize(lowOrderOf(last.size, last.degree))

\* FitSize of a size that is no power of two with the largest degree, not
\* clipped, gives several blocks smaller than the size
C40_FitSizeSplits ==
    /\ last.op = "FitSize"
    /\ last.degree = MAX_FIT_DEGREE
    /\ lowOrderOf(last.size, last.degree) > SMALLEST_SIZE_ORDER
    /\ last.count > 1
    /\ last.blockSize < last.size

====
